---- MODULE Spec2Model ----
(***************************************************************************)
(* Petgas Portal: the reward ledger / point balance bookkeeping done by    *)
(* the admin "assign reward" and "client details" pages, the lazy          *)
(* client-profile creation done by the client AuthProvider, the client's   *)
(* plastic mitigation submission with its evidence images, the admin       *)
(* review of mitigation entries and deletion of their images, the Petgas   *)
(* consumption entries, the deletion of reward definitions and of clients, *)
(* the client and admin edits of a clients row, the admin provider with    *)
(* the two layouts that guard the routes, and the paginated admin list of  *)
(* mitigation entries, over the relational store and the storage bucket    *)
(* described by the deployment schema.                                     *)
(***************************************************************************)
EXTENDS Integers, FiniteSets, Sequences, TLC

\* ------------------------------------------------------------------ bounds
MaxEntries == 2          \* client_rewards rows ever inserted
MaxMitigations == 2      \* plastic_mitigation_entries rows ever inserted
MaxImages == 2           \* image files attached to one submission
MaxClock == 1            \* last value Date.now() takes
MaxListed == 16           \* plastic_mitigation_entries rows the list starts with
MaxConsumptions == 2     \* petgas_consumption_entries rows ever inserted

\* ------------------------------------------------------- finite universes
ClientIds      == {"c1", "u1"}     \* clients.id values (u1: identity without a row yet)
RewardIds      == {"r1", "r2"}     \* rewards.id values
AssignSessions == {"a1", "a2"}     \* browser tabs showing AssignRewardPage
DetailSessions == {"d1", "d2"}     \* browser tabs showing ViewClientDetailsPage
ProfileCalls   == {"p1", "p2"}     \* concurrent fetchAndSetProfile invocations
ManageSessions == {"m1", "m2"}     \* browser tabs showing ManageSingleMitigationEntryPage
FileNames      == {"a.jpg", "b.jpg"}          \* File.name of the attached images
KgInputs       == {"", "-1", "0", "1", "2"}   \* contents of the kg number input
Statuses       == {"pending", "approved", "rejected"}

VARIABLES
  clientRows,      \* clients table: number of rows per id
  pgc_balance,     \* clients.pgc_balance per id
  pgc_amount,      \* rewards.pgc_amount per reward id
  client_rewards,  \* client_rewards table: set of rows
  nextId,          \* next client_rewards.id handed out by the store
  ap,              \* AssignRewardPage component state, per tab
  dp,              \* ViewClientDetailsPage component state, per tab
  lastCall,        \* history: answer of the most recent store call
  writeFailed,     \* history: some write of a reward operation returned an error
  revoked,         \* history: client_rewards ids whose revocation completed
  authUser,        \* identity of the session the auth service holds
  sessionPending,  \* the getSession() promise of the mount effect is unresolved
  signOutPending,  \* a signOut() call awaits the auth service
  session,         \* AuthProvider.session (the identity it belongs to)
  user,            \* AuthProvider.user
  profile,         \* AuthProvider.profile (the id of the clients row)
  loading,         \* AuthProvider.loading
  calls,           \* fetchAndSetProfile invocations
  storage,         \* object paths held by the bucket 'mitigation-images'
  now,             \* the value Date.now() returned last
  plastic_mitigation_entries,   \* plastic_mitigation_entries table: set of rows
  nextEntryId,     \* next plastic_mitigation_entries.id handed out by the store
  mitigation_activity_images,   \* mitigation_activity_images table: set of rows
  sp,              \* SubmitActivityPage component state (plastic mitigation form)
  mp,              \* ManageSingleMitigationEntryPage component state, per tab
  rewardRows,      \* rewards table: the ids that have a row
  rp,              \* ManageRewardDefinitionsPage component state
  email,           \* clients.email per id ("null" where no row exists)
  full_name,       \* clients.full_name per id
  solana_wallet,   \* clients.solana_wallet per id
  bnb_wallet,      \* clients.bnb_wallet per id
  profileEmail,    \* AuthProvider.profile.email
  pp,              \* ProfilePage component state
  cl,              \* admin clients list page component state
  ec,              \* EditClientPage component state
  petgas_consumption_entries,   \* petgas_consumption_entries table: set of rows
  nextConsumptionId,   \* next petgas_consumption_entries.id handed out by the store
  cf,              \* SubmitActivityPage component state (Petgas consumption form)
  cm,              \* ManageSingleConsumptionEntryPage component state
  adminAuthUser,   \* identity the admin auth service holds
  adminUser,       \* AdminAuthProvider.adminUser
  adminLoading,    \* AdminAuthProvider.loading
  adminSignOutPending,   \* a signOut() call of the admin provider awaits the service
  adminPath,       \* pathname of the admin's browser
  clientPath,      \* pathname of the client's browser
  lp               \* ListMitigationEntriesPage component state

colVars    == <<email, full_name, solana_wallet, bnb_wallet>>
authVars   == <<clientRows, authUser, sessionPending, signOutPending, session,
                user, profile, loading, calls, colVars, profileEmail>>
mitVars    == <<storage, now, plastic_mitigation_entries, nextEntryId,
                mitigation_activity_images, sp, mp>>
defVars    == <<rewardRows, rp>>
cliVars    == <<pp, cl, ec>>
conVars    == <<petgas_consumption_entries, nextConsumptionId, cf, cm>>
admVars    == <<adminAuthUser, adminUser, adminLoading, adminSignOutPending,
                adminPath, clientPath>>
newVars    == <<conVars, admVars, lp>>
extVars    == <<mitVars, defVars, cliVars, newVars>>
vars       == <<clientRows, pgc_balance, pgc_amount, client_rewards, nextId,
                ap, dp, lastCall, writeFailed, revoked,
                authUser, sessionPending, signOutPending, session,
                user, profile, loading, calls, extVars, colVars, profileEmail>>

\* --------------------------------------------------------------- helpers
Max(a, b) == IF a >= b THEN a ELSE b

EmptyFn == [x \in {} |-> 0]

\* clients rows that exist
ExistingClients == {c \in ClientIds : clientRows[c] > 0}

RECURSIVE SumAmounts(_)
SumAmounts(S) ==
  IF S = {} THEN 0
  ELSE LET e == CHOOSE x \in S : TRUE
       IN  pgc_amount[e.reward_id] + SumAmounts(S \ {e})

\* sum of the point values of the ledger entries a client currently holds
LedgerSum(c) == SumAmounts({e \in client_rewards : e.client_id = c})

\* react-select option objects; value "none" stands for null
NoClientOption == [value |-> "none", current_pgc_balance |-> 0]
NoRewardOption == [value |-> "none", pgc_amount |-> 0]
NoObtained     == [id |-> 0, pgc_amount |-> 0]
NoClient       == [id |-> "none", pgc_balance |-> 0]
NoMessage      == [client |-> "none", reward |-> "none", pgc_amount |-> 0]
NoOp           == [client |-> NoClientOption, reward |-> NoRewardOption, entry |-> 0]

\* ----------------------------------------------------- relational store
\* client_rewards.client_id REFERENCES clients(id): the insert needs the row
FkClientOk(c) == clientRows[c] > 0

\* client_rewards.reward_id REFERENCES rewards(id)
FkRewardOk(r) == r \in rewardRows

\* INSERT INTO client_rewards (client_id, reward_id, ...) with a fresh id
InsertClientReward(c, r) ==
  client_rewards \cup {[id |-> nextId, client_id |-> c, reward_id |-> r]}

\* DELETE FROM client_rewards WHERE id = e (no row matched: nothing deleted,
\* and the client library reports no error)
DeleteClientReward(e) == {x \in client_rewards : x.id # e}

\* ------------------------------------------------ AssignRewardPage (tab s)
\* clients.map(c => ({value: c.id, ..., current_pgc_balance: c.pgc_balance || 0}))
ClientOptions == [c \in ExistingClients |-> pgc_balance[c]]

\* rewards.map(r => ({value: r.id, ..., pgc_amount: r.pgc_amount}))
RewardOptions == [r \in rewardRows |-> pgc_amount[r]]

\* variant: the increment is applied to the balance the store holds
NewAssignBalanceStored(clientOpt, rewardOpt) ==
  pgc_balance[clientOpt.value] + rewardOpt.pgc_amount

\* newPgcBalance = (selectedClient.current_pgc_balance || 0) + selectedReward.pgc_amount
NewAssignBalance(clientOpt, rewardOpt) ==
  clientOpt.current_pgc_balance + rewardOpt.pgc_amount

\* the outcome shown after write 1 (insert) failed
AssignInsertError == "Assigning reward"

\* the outcome shown after write 2 (balance) failed
AssignBalanceError == "Updating PGC balance ... Please manually verify client balance."

ApInit ==
  [pc |-> "unmounted", clients |-> EmptyFn, rewards |-> EmptyFn,
   error |-> "null", successMessage |-> NoMessage, op |-> NoOp]

\* inserts that may still be issued without exceeding MaxEntries
CanInsert == nextId <= MaxEntries

\* useEffect on mount: fetchData, first query (clients).  A query that fails
\* leaves the form without options, where no assignment can be submitted
\* until the page is loaded again, so only answered queries are followed.
AssignMount(s) ==
  /\ ap[s].pc \in {"unmounted", "ready"}
  /\ ap' = [ap EXCEPT ![s] =
              [ApInit EXCEPT !.pc = "fetchRewards", !.clients = ClientOptions]]
  /\ lastCall' = "ok"
  /\ UNCHANGED <<pgc_balance, pgc_amount, client_rewards, nextId,
                 dp, writeFailed, revoked>>
  /\ UNCHANGED <<authVars, extVars>>

\* fetchData, second query (rewards)
AssignFetchRewards(s) ==
  /\ ap[s].pc = "fetchRewards"
  /\ ap' = [ap EXCEPT ![s].pc = "ready", ![s].rewards = RewardOptions]
  /\ lastCall' = "ok"
  /\ UNCHANGED <<pgc_balance, pgc_amount, client_rewards, nextId,
                 dp, writeFailed, revoked>>
  /\ UNCHANGED <<authVars, extVars>>

\* variant: clientRewardError is not thrown, and write 2 follows
AssignInsertAnsweredNoThrow(page, clientRewardError, op) ==
  [page EXCEPT !.pc = "update", !.error = "null",
               !.successMessage = NoMessage, !.op = op]

\* handleSubmit after write 1 was answered: the throw on clientRewardError
\* and the catch, or the way on to write 2
AssignInsertAnswered(page, clientRewardError, op) ==
  IF clientRewardError
  THEN [page EXCEPT !.error = AssignInsertError, !.successMessage = NoMessage]
  ELSE [page EXCEPT !.pc = "update", !.error = "null",
                    !.successMessage = NoMessage, !.op = op]

\* handleSubmit with the form's selectedClient = option c and selectedReward =
\* option r of the fetched lists, up to the answer of write 1 (insert into
\* client_rewards)
AssignSubmit(s, c, r, ok) ==
  /\ ap[s].pc = "ready"
  /\ c \in DOMAIN ap[s].clients
  /\ r \in DOMAIN ap[s].rewards
  /\ CanInsert
  /\ LET selectedClient == [value |-> c, current_pgc_balance |-> ap[s].clients[c]]
         selectedReward == [value |-> r, pgc_amount |-> ap[s].rewards[r]]
         op == [client |-> selectedClient, reward |-> selectedReward,
                entry |-> nextId]
     IN IF ok /\ FkClientOk(c) /\ FkRewardOk(r)
        THEN /\ client_rewards' = InsertClientReward(c, r)
             /\ nextId' = nextId + 1
             /\ ap' = [ap EXCEPT ![s] = AssignInsertAnswered(ap[s], FALSE, op)]
             /\ lastCall' = "ok"
             /\ UNCHANGED writeFailed
        ELSE /\ ap' = [ap EXCEPT ![s] = AssignInsertAnswered(ap[s], TRUE, op)]
             /\ lastCall' = "err"
             /\ writeFailed' = TRUE
             /\ UNCHANGED <<client_rewards, nextId>>
  /\ UNCHANGED <<pgc_balance, pgc_amount, dp, revoked>>
  /\ UNCHANGED <<authVars, extVars>>

\* variant: updateBalanceError is logged but not thrown
AssignFinishNoThrow(page, updateBalanceError) ==
  [page EXCEPT !.pc = "ready", !.op = NoOp,
     !.successMessage =
        [client |-> page.op.client.value, reward |-> page.op.reward.value,
         pgc_amount |-> page.op.reward.pgc_amount]]

\* handleSubmit after write 2 was answered: the throw on updateBalanceError
\* and the catch, or the success message and the reset of the form
AssignFinish(page, updateBalanceError) ==
  IF updateBalanceError
  THEN [page EXCEPT !.pc = "ready", !.op = NoOp, !.error = AssignBalanceError]
  ELSE [page EXCEPT !.pc = "ready", !.op = NoOp,
          !.successMessage =
             [client |-> page.op.client.value, reward |-> page.op.reward.value,
              pgc_amount |-> page.op.reward.pgc_amount]]

\* handleSubmit from write 2 (update clients.pgc_balance) to the end
AssignUpdateBalance(s, ok) ==
  /\ ap[s].pc = "update"
  /\ LET c == ap[s].op.client.value
     IN IF ok
        THEN /\ pgc_balance' = [pgc_balance EXCEPT ![c] =
                  IF clientRows[c] > 0
                  THEN NewAssignBalance(ap[s].op.client, ap[s].op.reward) ELSE @]
             /\ ap' = [ap EXCEPT ![s] = AssignFinish(ap[s], FALSE)]
             /\ lastCall' = "ok"
             /\ UNCHANGED writeFailed
        ELSE /\ ap' = [ap EXCEPT ![s] = AssignFinish(ap[s], TRUE)]
             /\ lastCall' = "err"
             /\ writeFailed' = TRUE
             /\ UNCHANGED pgc_balance
  /\ UNCHANGED <<pgc_amount, client_rewards, nextId, dp, revoked>>
  /\ UNCHANGED <<authVars, extVars>>

\* ------------------------------------------- ViewClientDetailsPage (tab d)
\* variant: the difference is written without the clamp at zero
NewRevokeBalanceUnclamped(currentPgcBalance, pgcAmountToDecrement) ==
  currentPgcBalance - pgcAmountToDecrement

\* newPgcBalance = Math.max(0, currentPgcBalance - pgcAmountToDecrement)
NewRevokeBalance(currentPgcBalance, pgcAmountToDecrement) ==
  Max(0, currentPgcBalance - pgcAmountToDecrement)

\* setObtainedRewards(prev => prev.filter(r => r.id !== clientRewardToRevoke.id))
FilterObtained(prev, e) == {r \in prev : r.id # e}

\* client_rewards joined with rewards(pgc_amount), for one client
ObtainedOf(c) ==
  {[id |-> e.id, pgc_amount |-> pgc_amount[e.reward_id]] :
     e \in {x \in client_rewards : x.client_id = c}}

\* the outcome shown after write 1 (delete) failed
RevokeDeleteError == "Deleting client_reward entry"

\* the outcome shown after write 2 (balance) failed
RevokeBalanceError == "Updating PGC balance failed ... Manual PGC adjustment might be needed."

DpInit ==
  [pc |-> "unmounted", clientId |-> "none", client |-> NoClient,
   obtainedRewards |-> {}, showRevokeModal |-> FALSE,
   clientRewardToRevoke |-> NoObtained, revokeError |-> "null",
   wasRevoked |-> FALSE]

\* useEffect on mount for /admin/clients/view/<c>: fetchAllClientData,
\* first query (the clients row, .single()).  A query that fails, or an id
\* without a row, leaves the page on its error screen, where no revocation
\* can be started, so only answered queries are followed.
DetailMount(d, c) ==
  /\ dp[d].pc \in {"unmounted", "ready"}
  /\ clientRows[c] = 1
  /\ dp' = [dp EXCEPT ![d] =
              [DpInit EXCEPT !.pc = "fetchRewards", !.clientId = c,
                 !.client = [id |-> c, pgc_balance |-> pgc_balance[c]]]]
  /\ lastCall' = "ok"
  /\ UNCHANGED <<pgc_balance, pgc_amount, client_rewards, nextId,
                 ap, writeFailed, revoked>>
  /\ UNCHANGED <<authVars, extVars>>

\* fetchAllClientData, last query (client_rewards joined with rewards)
DetailFetchRewards(d) ==
  /\ dp[d].pc = "fetchRewards"
  /\ dp' = [dp EXCEPT ![d].pc = "ready",
              ![d].obtainedRewards = ObtainedOf(dp[d].clientId)]
  /\ lastCall' = "ok"
  /\ UNCHANGED <<pgc_balance, pgc_amount, client_rewards, nextId,
                 ap, writeFailed, revoked>>
  /\ UNCHANGED <<authVars, extVars>>

\* handleRevokeRequest(reward), for the listed reward with client_rewards.id e
HandleRevokeRequest(d, e) ==
  /\ dp[d].pc = "ready"
  /\ ~dp[d].showRevokeModal
  /\ \E r \in dp[d].obtainedRewards :
        /\ r.id = e
        /\ dp' = [dp EXCEPT ![d].clientRewardToRevoke = r,
                    ![d].revokeError = "null", ![d].showRevokeModal = TRUE]
  /\ UNCHANGED <<pgc_balance, pgc_amount, client_rewards, nextId,
                 ap, lastCall, writeFailed, revoked>>
  /\ UNCHANGED <<authVars, extVars>>

\* confirmRevokeReward up to the answer of write 1 (delete from client_rewards)
ConfirmRevokeReward(d, ok) ==
  /\ dp[d].pc = "ready"
  /\ dp[d].showRevokeModal
  /\ dp[d].clientRewardToRevoke.id # 0
  /\ dp[d].client.id # "none"
  /\ LET e == dp[d].clientRewardToRevoke.id
     IN IF ok
        THEN /\ client_rewards' = DeleteClientReward(e)
             /\ dp' = [dp EXCEPT ![d].pc = "update", ![d].revokeError = "null",
                         ![d].wasRevoked = (e \in revoked)]
             /\ lastCall' = "ok"
             /\ UNCHANGED writeFailed
        ELSE /\ dp' = [dp EXCEPT ![d].revokeError = RevokeDeleteError]
             /\ lastCall' = "err"
             /\ writeFailed' = TRUE
             /\ UNCHANGED client_rewards
  /\ UNCHANGED <<pgc_balance, pgc_amount, nextId, ap, revoked>>
  /\ UNCHANGED <<authVars, extVars>>

\* variant: the list of rewards is filtered before updateBalanceError is looked at
RevokeFinishEagerFilter(page, updateBalanceError, v) ==
  IF updateBalanceError
  THEN [page EXCEPT !.pc = "ready", !.wasRevoked = FALSE,
          !.obtainedRewards =
             FilterObtained(page.obtainedRewards, page.clientRewardToRevoke.id),
          !.revokeError = RevokeBalanceError]
  ELSE [page EXCEPT !.pc = "ready", !.wasRevoked = FALSE,
          !.client = [id |-> page.client.id, pgc_balance |-> v],
          !.obtainedRewards =
             FilterObtained(page.obtainedRewards, page.clientRewardToRevoke.id),
          !.showRevokeModal = FALSE,
          !.clientRewardToRevoke = NoObtained]

\* confirmRevokeReward after write 2 was answered with the updated row (its
\* balance is v): the throw on updateBalanceError and the catch, or setClient,
\* setObtainedRewards and the closing of the dialog
RevokeFinish(page, updateBalanceError, v) ==
  IF updateBalanceError
  THEN [page EXCEPT !.pc = "ready", !.wasRevoked = FALSE,
          !.revokeError = RevokeBalanceError]
  ELSE [page EXCEPT !.pc = "ready", !.wasRevoked = FALSE,
          !.client = [id |-> page.client.id, pgc_balance |-> v],
          !.obtainedRewards =
             FilterObtained(page.obtainedRewards, page.clientRewardToRevoke.id),
          !.showRevokeModal = FALSE,
          !.clientRewardToRevoke = NoObtained]

\* confirmRevokeReward from write 2 (update clients.pgc_balance, .select().single())
\* to the end
RevokeUpdateBalance(d, ok) ==
  /\ dp[d].pc = "update"
  /\ LET c == dp[d].client.id
         e == dp[d].clientRewardToRevoke.id
         v == NewRevokeBalance(dp[d].client.pgc_balance,
                               dp[d].clientRewardToRevoke.pgc_amount)
     IN IF ok /\ clientRows[c] = 1
        THEN /\ pgc_balance' = [pgc_balance EXCEPT ![c] = v]
             /\ revoked' = revoked \cup {e}
             /\ dp' = [dp EXCEPT ![d] = RevokeFinish(dp[d], FALSE, v)]
             /\ lastCall' = IF dp[d].clientRewardToRevoke.pgc_amount
                                  > dp[d].client.pgc_balance
                             THEN "ok, clamped" ELSE "ok"
             /\ UNCHANGED writeFailed
        ELSE /\ dp' = [dp EXCEPT ![d] = RevokeFinish(dp[d], TRUE, v)]
             /\ lastCall' = "err"
             /\ writeFailed' = TRUE
             /\ UNCHANGED <<pgc_balance, revoked>>
  /\ UNCHANGED <<pgc_amount, client_rewards, nextId, ap>>
  /\ UNCHANGED <<authVars, extVars>>

\* ------------------------------------------------- AuthProvider (client)
rewardVars == <<pgc_amount, client_rewards, nextId, ap, dp, lastCall,
                writeFailed, revoked>>

\* currentUser.email of the identities
UserEmail(id) == IF id = "c1" THEN "c1@petgas" ELSE "u1@petgas"

IdleCall == [pc |-> "idle", user |-> "none", res |-> "none"]

\* variant: the table has no key on id
InsertClientAcceptedNoKey(id) == TRUE

\* clients.id is the PRIMARY KEY: an insert is accepted when no row has the id
InsertClientAccepted(id) == clientRows[id] = 0

\* .from('clients').select('*').eq('id', id).single(): the row, or error
\* PGRST116 when the number of rows is not one, or another error
SelectSingle(id, ok) ==
  IF ~ok THEN "error" ELSE IF clientRows[id] = 1 THEN "row" ELSE "PGRST116"

\* fetchAndSetProfile(currentUser) up to the answer of the select, in slot k
StartFetch(k, currentUser, ok) ==
  /\ calls[k].pc = "idle"
  /\ loading' = TRUE
  /\ calls' = [calls EXCEPT ![k] =
       [pc |-> "select", user |-> currentUser, res |-> SelectSingle(currentUser, ok)]]

\* supabase.auth.getSession().then(...) of the mount effect
GetSessionResolved(k, ok) ==
  /\ sessionPending
  /\ sessionPending' = FALSE
  /\ session' = authUser
  /\ user' = authUser
  /\ IF authUser # "none"
     THEN StartFetch(k, authUser, ok)
     ELSE /\ ok
          /\ loading' = FALSE
          /\ UNCHANGED calls
  /\ UNCHANGED <<clientRows, pgc_balance, authUser, signOutPending, profile>>
  /\ UNCHANGED <<rewardVars, extVars, colVars, profileEmail>>

\* onAuthStateChange callback for SIGNED_IN, USER_UPDATED or TOKEN_REFRESHED
\* (a session with a user); the trailing setLoading(false) runs right after
\* the finally of fetchAndSetProfile and repeats it
AuthEventWithUser(event, k, ok) ==
  /\ event \in {"SIGNED_IN", "USER_UPDATED", "TOKEN_REFRESHED"}
  /\ event # "SIGNED_IN" => authUser = "u1"
  /\ ~signOutPending
  /\ authUser' = "u1"
  /\ session' = "u1"
  /\ user' = "u1"
  /\ StartFetch(k, "u1", ok)
  /\ UNCHANGED <<clientRows, pgc_balance, sessionPending, signOutPending, profile>>
  /\ UNCHANGED <<rewardVars, extVars, colVars, profileEmail>>

\* onAuthStateChange callback without a session (SIGNED_OUT, or
\* INITIAL_SESSION when nobody is signed in)
AuthEventSignedOut ==
  /\ authUser = "none"
  /\ session # "none" \/ user # "none" \/ profile # "none" \/ loading
  /\ session' = "none"
  /\ user' = "none"
  /\ profile' = "none"
  /\ profileEmail' = "none"
  /\ loading' = FALSE
  /\ UNCHANGED <<clientRows, pgc_balance, authUser, sessionPending,
                 signOutPending, calls>>
  /\ UNCHANGED <<rewardVars, extVars, colVars>>

\* fetchAndSetProfile after the select was answered: the row is the profile,
\* or (PGRST116) the insert is sent and answered by the store, or the error
\* is caught
FetchSelectAnswered(k, ok) ==
  /\ calls[k].pc = "select"
  /\ LET u == calls[k].user
     IN CASE calls[k].res = "row" ->
               /\ ok
               /\ profile' = u
               /\ profileEmail' = email[u]
               /\ loading' = FALSE
               /\ calls' = [calls EXCEPT ![k] = IdleCall]
               /\ UNCHANGED <<clientRows, pgc_balance, colVars>>
          [] calls[k].res = "PGRST116" ->
               /\ IF ok /\ InsertClientAccepted(u)
                  THEN /\ clientRows' = [clientRows EXCEPT ![u] = @ + 1]
                       /\ pgc_balance' = [pgc_balance EXCEPT ![u] = 0]
                       /\ email' = [email EXCEPT ![u] = UserEmail(u)]
                       /\ full_name' = [full_name EXCEPT ![u] = "null"]
                       /\ solana_wallet' = [solana_wallet EXCEPT ![u] = "null"]
                       /\ bnb_wallet' = [bnb_wallet EXCEPT ![u] = "null"]
                       /\ calls' = [calls EXCEPT ![k].pc = "insert", ![k].res = "row"]
                  ELSE /\ calls' = [calls EXCEPT ![k].pc = "insert",
                                      ![k].res = IF ok THEN "23505" ELSE "error"]
                       /\ UNCHANGED <<clientRows, pgc_balance, colVars>>
               /\ UNCHANGED <<profile, profileEmail, loading>>
          [] OTHER ->
               /\ ok
               /\ profile' = "none"
               /\ profileEmail' = "none"
               /\ loading' = FALSE
               /\ calls' = [calls EXCEPT ![k] = IdleCall]
               /\ UNCHANGED <<clientRows, pgc_balance, colVars>>
  /\ UNCHANGED <<authUser, sessionPending, signOutPending, session, user>>
  /\ UNCHANGED <<rewardVars, extVars>>

\* the profile a fetchAndSetProfile call ends with after its insert was answered
ProfileAfterInsert(u, insertRes) == IF insertRes = "row" THEN u ELSE "none"

\* fetchAndSetProfile after the insert was answered
FetchInsertAnswered(k) ==
  /\ calls[k].pc = "insert"
  /\ profile' = ProfileAfterInsert(calls[k].user, calls[k].res)
  /\ profileEmail' = IF calls[k].res = "row" THEN UserEmail(calls[k].user) ELSE "none"
  /\ loading' = FALSE
  /\ calls' = [calls EXCEPT ![k] = IdleCall]
  /\ UNCHANGED <<clientRows, pgc_balance, authUser, sessionPending,
                 signOutPending, session, user>>
  /\ UNCHANGED <<rewardVars, extVars, colVars>>

\* refreshProfile()
RefreshProfile(k, ok) ==
  /\ user # "none"
  /\ StartFetch(k, user, ok)
  /\ UNCHANGED <<clientRows, pgc_balance, authUser, sessionPending,
                 signOutPending, session, user, profile>>
  /\ UNCHANGED <<rewardVars, extVars, colVars, profileEmail>>

\* signOut() up to the await of supabase.auth.signOut()
SignOut ==
  /\ ~signOutPending
  /\ user # "none"
  /\ loading' = TRUE
  /\ authUser' = "none"
  /\ signOutPending' = TRUE
  /\ UNCHANGED <<clientRows, pgc_balance, sessionPending, session, user,
                 profile, calls>>
  /\ UNCHANGED <<rewardVars, extVars, colVars, profileEmail>>

\* signOut() after the await
SignOutResolved ==
  /\ signOutPending
  /\ signOutPending' = FALSE
  /\ user' = "none"
  /\ session' = "none"
  /\ profile' = "none"
  /\ profileEmail' = "none"
  /\ loading' = FALSE
  /\ UNCHANGED <<clientRows, pgc_balance, authUser, sessionPending, calls>>
  /\ UNCHANGED <<rewardVars, extVars, colVars>>

\* ------------------------------ SubmitActivityPage (plastic mitigation form)
\* every variable but the mitigation ones
nonMitVars == <<clientRows, pgc_balance, authUser, sessionPending,
                signOutPending, session, user, profile, loading, calls,
                rewardVars, defVars, cliVars, newVars, colVars, profileEmail>>

\* sequences of at most n elements of S
SeqUpTo(S, n) == UNION {[1..k -> S] : k \in 0..n}

\* the elements of a sequence
Range(q) == {q[i] : i \in 1..Len(q)}

\* parseFloat(mitigatedPlasticKg) for the non-empty contents of the input
ParseFloat(str) ==
  CASE str = "-1" -> 0 - 1
    [] str = "0"  -> 0
    [] str = "1"  -> 1
    [] str = "2"  -> 2

\* variant: zero passes the validation
KgInvalidNegativeOnly(str) == str = "" \/ ParseFloat(str) < 0

\* !mitigatedPlasticKg || parseFloat(mitigatedPlasticKg) <= 0
KgInvalid(str) == str = "" \/ ParseFloat(str) <= 0

\* `${user.id}/${Date.now()}_${filePreview.file.name}`
FileName(uid, t, name) == [folder |-> uid, time |-> t, name |-> name]

\* getPublicUrl(path).publicUrl
PublicUrl(path) == [bucket |-> "mitigation-images", path |-> path]

\* parts.slice(parts.indexOf('mitigation-images') + 1).join('/')
PathOfUrl(url) == url.path

\* storage.upload(path, file, {upsert: false}): refused when the object exists
UploadAccepted(path) == path \notin storage

\* the status column of the entries is read and written by the admin pages
\* but is declared by none of the schema statements; its default is taken
\* from the documented life cycle of an entry
StatusDefault == "pending"

\* mitigated_plastic_kg NUMERIC NOT NULL CHECK (mitigated_plastic_kg > 0)
KgCheckOk(kg) == kg > 0

\* INSERT INTO plastic_mitigation_entries (client_id, mitigated_plastic_kg)
InsertMitigationEntry(c, kg) ==
  plastic_mitigation_entries \cup
    {[id |-> nextEntryId, client_id |-> c, mitigated_plastic_kg |-> kg,
      status |-> StatusDefault]}

\* variant: the last uploaded image gets no record
ImageRecordsDropLast(entryId, urls) ==
  {[id |-> <<entryId, i>>, entry_id |-> entryId, image_url |-> urls[i]]
     : i \in 1..(Len(urls) - 1)}

\* uploadedImageUrls.map(url => ({entry_id: mitigationEntry.id, image_url: url}))
\* as the rows the insert creates (one row per element of the array)
ImageRecords(entryId, urls) ==
  {[id |-> <<entryId, i>>, entry_id |-> entryId, image_url |-> urls[i]]
     : i \in 1..Len(urls)}

LoginError        == "You must be logged in to submit data."
ValidationError   == "Please enter a valid amount for mitigated plastic (kg)."
UploadError       == "Failed to upload"
EntryError        == "entryError.message"
ImageRecordError  == "imageRecordError.message"
SuccessMessage    == "Plastic mitigation activity logged successfully!"

SpInit ==
  [pc |-> "idle", userId |-> "none", mitigatedPlasticKg |-> "",
   imageFiles |-> <<>>, uploadedImageUrls |-> <<>>, mitigationEntry |-> 0,
   mitigationMessage |-> "", mitigationError |-> ""]

\* variant: the catch block reports success
MitigationCaughtAsSuccess(page, message) ==
  [page EXCEPT !.pc = "idle", !.mitigationMessage = SuccessMessage]

\* catch (err) { setMitigationError(err.message) } finally { setMitigationLoading(false) }
MitigationCaught(page, message) ==
  [page EXCEPT !.pc = "idle", !.mitigationError = message]

\* setMitigationMessage(...); setMitigatedPlasticKg(''); setImageFiles([])
MitigationSucceeded(page) ==
  [page EXCEPT !.pc = "idle", !.mitigationMessage = SuccessMessage,
               !.mitigatedPlasticKg = "", !.imageFiles = <<>>]

\* handleSubmitPlasticMitigation with the form holding kg and files, up to the
\* first await: the two early returns, or the start of the try block
SubmitMitigation(kg, files) ==
  /\ sp.pc = "idle"
  /\ nextEntryId <= MaxMitigations
  /\ LET form == [sp EXCEPT !.mitigatedPlasticKg = kg, !.imageFiles = files]
     IN sp' = IF user = "none" \/ profile = "none"
              THEN [form EXCEPT !.mitigationError = LoginError]
              ELSE IF KgInvalid(kg)
              THEN [form EXCEPT !.mitigationError = ValidationError]
              ELSE [form EXCEPT !.pc = IF Len(files) > 0 THEN "upload"
                                                         ELSE "insertEntry",
                                !.userId = user,
                                !.uploadedImageUrls = <<>>,
                                !.mitigationEntry = 0,
                                !.mitigationMessage = "",
                                !.mitigationError = ""]
  /\ UNCHANGED <<storage, now, plastic_mitigation_entries, nextEntryId,
                 mitigation_activity_images, mp>>
  /\ UNCHANGED nonMitVars

\* one turn of the upload loop: Date.now() reads t, the upload of the next
\* file is answered, and either its public URL is pushed or the error thrown
UploadAnswered(ok, t) ==
  /\ sp.pc = "upload"
  /\ t \in now..(IF now < MaxClock THEN now + 1 ELSE now)
  /\ now' = t
  /\ LET filePreview == sp.imageFiles[Len(sp.uploadedImageUrls) + 1]
         fileName    == FileName(sp.userId, t, filePreview)
     IN IF ok /\ UploadAccepted(fileName)
        THEN LET urls == Append(sp.uploadedImageUrls, PublicUrl(fileName))
             IN /\ storage' = storage \cup {fileName}
                /\ sp' = [sp EXCEPT !.uploadedImageUrls = urls,
                                    !.pc = IF Len(urls) = Len(sp.imageFiles)
                                           THEN "insertEntry" ELSE "upload"]
        ELSE /\ sp' = MitigationCaught(sp, UploadError)
             /\ UNCHANGED storage
  /\ UNCHANGED <<plastic_mitigation_entries, nextEntryId,
                 mitigation_activity_images, mp>>
  /\ UNCHANGED nonMitVars

\* the insert into plastic_mitigation_entries is answered; on an error the
\* uploaded files are removed (the answer of remove is not looked at) and the
\* error thrown; without images the submission ends here
EntryInsertAnswered(ok, removeOk) ==
  /\ sp.pc = "insertEntry"
  /\ LET kg == ParseFloat(sp.mitigatedPlasticKg)
     IN IF ok /\ FkClientOk(sp.userId) /\ KgCheckOk(kg)
        THEN /\ removeOk
             /\ plastic_mitigation_entries' = InsertMitigationEntry(sp.userId, kg)
             /\ nextEntryId' = nextEntryId + 1
             /\ sp' = IF Len(sp.uploadedImageUrls) > 0
                      THEN [sp EXCEPT !.pc = "insertImages",
                                      !.mitigationEntry = nextEntryId]
                      ELSE MitigationSucceeded([sp EXCEPT !.mitigationEntry = nextEntryId])
             /\ UNCHANGED storage
        ELSE /\ removeOk \/ Len(sp.uploadedImageUrls) > 0
             /\ storage' = IF removeOk
                           THEN storage \ {PathOfUrl(u) : u \in Range(sp.uploadedImageUrls)}
                           ELSE storage
             /\ sp' = MitigationCaught(sp, EntryError)
             /\ UNCHANGED <<plastic_mitigation_entries, nextEntryId>>
  /\ UNCHANGED <<now, mitigation_activity_images, mp>>
  /\ UNCHANGED nonMitVars

\* mitigation_activity_images REFERENCES plastic_mitigation_entries(id)
FkEntryOk(e) == \E x \in plastic_mitigation_entries : x.id = e

\* the insert of the image records (one statement) is answered
ImageRowsAnswered(ok) ==
  /\ sp.pc = "insertImages"
  /\ IF ok /\ FkEntryOk(sp.mitigationEntry)
     THEN /\ mitigation_activity_images' =
               mitigation_activity_images \cup
                 ImageRecords(sp.mitigationEntry, sp.uploadedImageUrls)
          /\ sp' = MitigationSucceeded(sp)
     ELSE /\ sp' = MitigationCaught(sp, ImageRecordError)
          /\ UNCHANGED mitigation_activity_images
  /\ UNCHANGED <<storage, now, plastic_mitigation_entries, nextEntryId, mp>>
  /\ UNCHANGED nonMitVars

\* ------------------------------ ManageSingleMitigationEntryPage (tab m)
KgEdits   == {0, 1, 2}       \* parseFloat(e.target.value) || 0 of the kg input
NoEntry   == [id |-> 0, mitigated_plastic_kg |-> 0, status |-> "",
              mitigation_activity_images |-> {}]

UpdateNetworkError == "Failed to fetch"
UpdateCheckError   == "violates check constraint"
UpdateSuccess      == "Entry updated successfully!"
ImageDeleteError   == "Failed to delete image."
ImageDeleted       == "Image deleted successfully."

\* imageDeleteLoading holds the id of the image record being deleted (<<>>
\* for null); storageError is the handler's local of that name
MpInit ==
  [pc |-> "unmounted", entry |-> NoEntry, editableKg |-> 0,
   editableStatus |-> "", error |-> "null", successMessage |-> "null",
   imageDeleteLoading |-> <<>>, storageError |-> FALSE]

\* the row of plastic_mitigation_entries with id e, as fetchEntryDetails reads it
EntryRow(e) ==
  LET x == CHOOSE y \in plastic_mitigation_entries : y.id = e
  IN  [id |-> x.id, mitigated_plastic_kg |-> x.mitigated_plastic_kg,
       status |-> x.status,
       mitigation_activity_images |->
         {[id |-> i.id, image_url |-> i.image_url] :
            i \in {j \in mitigation_activity_images : j.entry_id = e}}]

\* fetchEntryDetails answered with the row: setEntry, setEditableKg,
\* setEditableStatus.  (A failed read leaves the page as it was.)
EntryFetched(page, e) ==
  [page EXCEPT !.pc = "ready", !.entry = EntryRow(e),
               !.editableKg = EntryRow(e).mitigated_plastic_kg,
               !.editableStatus = EntryRow(e).status,
               !.error = "null"]

\* useEffect: fetchEntryDetails for the entryId of the route
ManageMount(m, e) ==
  /\ mp[m].pc \in {"unmounted", "ready"}
  /\ FkEntryOk(e)
  /\ mp' = [mp EXCEPT ![m] = EntryFetched(MpInit, e)]
  /\ UNCHANGED <<storage, now, plastic_mitigation_entries, nextEntryId,
                 mitigation_activity_images, sp>>
  /\ UNCHANGED nonMitVars

\* variant: the store refuses to re-open a reviewed entry
UpdateEntryAcceptedNoReopen(row, kg, status) ==
  KgCheckOk(kg) /\ (row.status = "pending" \/ status # "pending")

\* the store accepts UPDATE ... SET mitigated_plastic_kg = kg, status = status
\* on a row when the table's CHECK holds
UpdateEntryAccepted(row, kg, status) == KgCheckOk(kg)

\* UPDATE plastic_mitigation_entries SET mitigated_plastic_kg, status WHERE id = e
UpdateMitigationEntry(e, kg, status) ==
  {IF x.id = e THEN [x EXCEPT !.mitigated_plastic_kg = kg, !.status = status]
               ELSE x : x \in plastic_mitigation_entries}

\* handleUpdateEntry with the form holding kg (the kg input: the loaded
\* amount, or parseFloat(value) || 0 of what was typed) and status (the
\* select), up to the answer of the update; fetchEntryDetails is then called
\* to refresh the page
HandleUpdateEntry(m, kg, status, ok) ==
  /\ mp[m].pc = "ready"
  /\ LET e == mp[m].entry.id
         refused == \E x \in plastic_mitigation_entries :
                      x.id = e /\ ~UpdateEntryAccepted(x, kg, status)
         form == [mp[m] EXCEPT !.editableKg = kg, !.editableStatus = status]
     IN IF ok /\ ~refused
        THEN /\ plastic_mitigation_entries' = UpdateMitigationEntry(e, kg, status)
             /\ mp' = [mp EXCEPT ![m] =
                         [form EXCEPT !.pc = "refetch", !.error = "null",
                                      !.successMessage = UpdateSuccess]]
        ELSE /\ mp' = [mp EXCEPT ![m] =
                         [form EXCEPT !.successMessage = "null",
                                      !.error = IF ok THEN UpdateCheckError
                                                      ELSE UpdateNetworkError]]
             /\ UNCHANGED plastic_mitigation_entries
  /\ UNCHANGED <<storage, now, nextEntryId, mitigation_activity_images, sp>>
  /\ UNCHANGED nonMitVars

\* the fetchEntryDetails started by handleUpdateEntry is answered
ManageRefetch(m) ==
  /\ mp[m].pc = "refetch"
  /\ FkEntryOk(mp[m].entry.id)
  /\ mp' = [mp EXCEPT ![m] = EntryFetched(mp[m], mp[m].entry.id)]
  /\ UNCHANGED <<storage, now, plastic_mitigation_entries, nextEntryId,
                 mitigation_activity_images, sp>>
  /\ UNCHANGED nonMitVars

\* imageUrl.substring(imageUrl.indexOf('mitigation-images/') + 'mitigation-images/'.length)
PathAfterBucket(url) == url.path

\* storage.remove([path]) answered without error: the object is gone
StorageRemove(path) == storage \ {path}

\* DELETE FROM mitigation_activity_images WHERE id = imageId
DeleteImageRow(imageId) == {i \in mitigation_activity_images : i.id # imageId}

\* handleDeleteImage(img.id, img.image_url) for a listed image, confirmed in
\* the dialog, up to the answer of storage.remove: a storageError is logged
\* as a warning and the handler goes on
HandleDeleteImage(m, img, storageOk) ==
  /\ mp[m].pc = "ready"
  /\ img \in mp[m].entry.mitigation_activity_images
  /\ storage' = IF storageOk THEN StorageRemove(PathAfterBucket(img.image_url))
                             ELSE storage
  /\ mp' = [mp EXCEPT ![m].pc = "deleteImage",
                       ![m].imageDeleteLoading = img.id,
                       ![m].storageError = ~storageOk,
                       ![m].error = "null", ![m].successMessage = "null"]
  /\ UNCHANGED <<now, plastic_mitigation_entries, nextEntryId,
                 mitigation_activity_images, sp>>
  /\ UNCHANGED nonMitVars

\* handleDeleteImage after the delete of the image record was answered: the
\* throw on dbError and the catch, or the success message and the call of
\* fetchEntryDetails; finally setImageDeleteLoading(null)
ImageDeleteFinished(page, storageError, dbError) ==
  IF dbError
  THEN [page EXCEPT !.pc = "ready", !.imageDeleteLoading = <<>>,
                    !.storageError = FALSE, !.error = ImageDeleteError]
  ELSE [page EXCEPT !.pc = "refetch", !.imageDeleteLoading = <<>>,
                    !.storageError = FALSE, !.successMessage = ImageDeleted]

\* handleDeleteImage from the delete of the image record to the end
DeleteImageRowAnswered(m, ok) ==
  /\ mp[m].pc = "deleteImage"
  /\ mitigation_activity_images' =
       IF ok THEN DeleteImageRow(mp[m].imageDeleteLoading)
             ELSE mitigation_activity_images
  /\ mp' = [mp EXCEPT ![m] = ImageDeleteFinished(mp[m], mp[m].storageError, ~ok)]
  /\ UNCHANGED <<storage, now, plastic_mitigation_entries, nextEntryId, sp>>
  /\ UNCHANGED nonMitVars

\* ------------------------------ SubmitActivityPage (Petgas consumption form)
\* every variable but the consumption ones
nonConVars == <<clientRows, pgc_balance, authUser, sessionPending,
                signOutPending, session, user, profile, loading, calls,
                rewardVars, mitVars, defVars, cliVars, admVars, lp, colVars,
                profileEmail>>

ConsumptionValidationError == "Please enter a valid amount for Petgas consumed (liters)."
ConsumptionError           == "Failed to log consumption."
ConsumptionLogged          == "Petgas consumption logged successfully!"

CfInit == [litersConsumed |-> "", consumptionMessage |-> "", consumptionError |-> ""]

\* !litersConsumed || parseFloat(litersConsumed) <= 0
LitersInvalid(str) == str = "" \/ ParseFloat(str) <= 0

\* variant: the column has no CHECK
LitersCheckOkUnchecked(liters) == TRUE

\* liters_consumed NUMERIC NOT NULL CHECK (liters_consumed > 0)
LitersCheckOk(liters) == liters > 0

\* INSERT INTO petgas_consumption_entries (client_id, liters_consumed)
InsertConsumptionEntry(c, liters) ==
  petgas_consumption_entries \cup
    {[id |-> nextConsumptionId, client_id |-> c, liters_consumed |-> liters]}

\* handleSubmitPetgasConsumption with the form holding liters: the two early
\* returns, or the insert and its answer
SubmitConsumption(liters, ok) ==
  /\ nextConsumptionId <= MaxConsumptions
  /\ LET form == [cf EXCEPT !.litersConsumed = liters]
     IN IF user = "none" \/ profile = "none"
        THEN /\ ok
             /\ cf' = [form EXCEPT !.consumptionError = LoginError]
             /\ UNCHANGED <<petgas_consumption_entries, nextConsumptionId>>
        ELSE IF LitersInvalid(liters)
        THEN /\ ok
             /\ cf' = [form EXCEPT !.consumptionError = ConsumptionValidationError]
             /\ UNCHANGED <<petgas_consumption_entries, nextConsumptionId>>
        ELSE IF ok /\ FkClientOk(user) /\ LitersCheckOk(ParseFloat(liters))
        THEN /\ petgas_consumption_entries' =
                  InsertConsumptionEntry(user, ParseFloat(liters))
             /\ nextConsumptionId' = nextConsumptionId + 1
             /\ cf' = [form EXCEPT !.litersConsumed = "",
                                   !.consumptionMessage = ConsumptionLogged,
                                   !.consumptionError = ""]
        ELSE /\ cf' = [form EXCEPT !.consumptionMessage = "",
                                   !.consumptionError = ConsumptionError]
             /\ UNCHANGED <<petgas_consumption_entries, nextConsumptionId>>
  /\ UNCHANGED cm
  /\ UNCHANGED nonConVars

\* ------------------------------------- ManageSingleConsumptionEntryPage
LiterEdits    == {0, 1, 2}   \* parseFloat(e.target.value) || 0 of the liters input
NoConsumption == [id |-> 0, liters_consumed |-> 0]

ConsumptionUpdated == "Consumption entry updated successfully!"

CmInit ==
  [pc |-> "unmounted", entry |-> NoConsumption, editableLiters |-> 0,
   error |-> "null", successMessage |-> "null"]

\* the row of petgas_consumption_entries with id e, as fetchEntryDetails reads it
ConsumptionRow(e) ==
  LET x == CHOOSE y \in petgas_consumption_entries : y.id = e
  IN  [id |-> x.id, liters_consumed |-> x.liters_consumed]

\* fetchEntryDetails answered with the row: setEntry, setEditableLiters
ConsumptionFetched(page, e) ==
  [page EXCEPT !.pc = "ready", !.entry = ConsumptionRow(e),
               !.editableLiters = ConsumptionRow(e).liters_consumed,
               !.error = "null"]

\* useEffect: fetchEntryDetails for the entryId of the route
ConsumptionMount(e) ==
  /\ cm.pc \in {"unmounted", "ready"}
  /\ \E x \in petgas_consumption_entries : x.id = e
  /\ cm' = ConsumptionFetched(CmInit, e)
  /\ UNCHANGED <<petgas_consumption_entries, nextConsumptionId, cf>>
  /\ UNCHANGED nonConVars

\* UPDATE petgas_consumption_entries SET liters_consumed WHERE id = e
UpdateConsumptionEntry(e, liters) ==
  {IF x.id = e THEN [x EXCEPT !.liters_consumed = liters] ELSE x
     : x \in petgas_consumption_entries}

\* handleUpdateEntry with the liters input holding liters, up to the answer
\* of the update; fetchEntryDetails is then called to refresh the page
HandleUpdateConsumptionEntry(liters, ok) ==
  /\ cm.pc = "ready"
  /\ LET e == cm.entry.id
         refused == /\ \E x \in petgas_consumption_entries : x.id = e
                    /\ ~LitersCheckOk(liters)
         form == [cm EXCEPT !.editableLiters = liters]
     IN IF ok /\ ~refused
        THEN /\ petgas_consumption_entries' = UpdateConsumptionEntry(e, liters)
             /\ cm' = [form EXCEPT !.pc = "refetch", !.error = "null",
                                   !.successMessage = ConsumptionUpdated]
        ELSE /\ cm' = [form EXCEPT !.successMessage = "null",
                                   !.error = IF ok THEN UpdateCheckError
                                                   ELSE UpdateNetworkError]
             /\ UNCHANGED petgas_consumption_entries
  /\ UNCHANGED <<nextConsumptionId, cf>>
  /\ UNCHANGED nonConVars

\* the fetchEntryDetails started by handleUpdateEntry is answered
ConsumptionRefetch ==
  /\ cm.pc = "refetch"
  /\ \E x \in petgas_consumption_entries : x.id = cm.entry.id
  /\ cm' = ConsumptionFetched(cm, cm.entry.id)
  /\ UNCHANGED <<petgas_consumption_entries, nextConsumptionId, cf>>
  /\ UNCHANGED nonConVars

\* ------------------------------------------ ManageRewardDefinitionsPage
DeleteConflictError == "violates foreign key constraint"
DeleteNetworkError  == "Failed to fetch"

RpInit ==
  [pc |-> "unmounted", rewards |-> {}, showDeleteModal |-> FALSE,
   rewardToDelete |-> "none", error |-> "null"]

\* useEffect on mount: fetchRewards answered with the rows of rewards
DefinitionsMount ==
  /\ rp.pc = "unmounted"
  /\ rp' = [rp EXCEPT !.pc = "ready", !.rewards = rewardRows]
  /\ UNCHANGED <<rewardRows, clientRows, pgc_balance, pgc_amount,
                 client_rewards, nextId, ap, dp, lastCall, writeFailed, revoked>>
  /\ UNCHANGED <<authUser, sessionPending, signOutPending, session, user,
                 profile, loading, calls, mitVars, cliVars, newVars, colVars,
                 profileEmail>>

\* handleDeleteRequest(reward) from the Delete button of a listed reward
HandleDeleteRequest(r) ==
  /\ rp.pc = "ready"
  /\ ~rp.showDeleteModal
  /\ r \in rp.rewards
  /\ rp' = [rp EXCEPT !.rewardToDelete = r, !.showDeleteModal = TRUE]
  /\ UNCHANGED <<rewardRows, clientRows, pgc_balance, pgc_amount,
                 client_rewards, nextId, ap, dp, lastCall, writeFailed, revoked>>
  /\ UNCHANGED <<authUser, sessionPending, signOutPending, session, user,
                 profile, loading, calls, mitVars, cliVars, newVars, colVars,
                 profileEmail>>

\* variant: the foreign key does not restrict the delete
DeleteRewardAcceptedUnrestricted(r) == TRUE

\* reward_id REFERENCES rewards(id) ON DELETE RESTRICT: the delete of a
\* reward is accepted when no client_rewards row references it
DeleteRewardAccepted(r) == ~\E e \in client_rewards : e.reward_id = r

\* confirmDeleteReward: the delete is answered
ConfirmDeleteReward(ok) ==
  /\ rp.pc = "ready"
  /\ rp.rewardToDelete # "none"
  /\ LET r == rp.rewardToDelete
     IN IF ok /\ DeleteRewardAccepted(r)
        THEN /\ rewardRows' = rewardRows \ {r}
             /\ rp' = [rp EXCEPT !.rewards = @ \ {r}, !.showDeleteModal = FALSE,
                                 !.rewardToDelete = "none"]
        ELSE /\ rp' = [rp EXCEPT !.error = IF ok THEN DeleteConflictError
                                               ELSE DeleteNetworkError]
             /\ UNCHANGED rewardRows
  /\ UNCHANGED <<clientRows, pgc_balance, pgc_amount,
                 client_rewards, nextId, ap, dp, lastCall, writeFailed, revoked>>
  /\ UNCHANGED <<authUser, sessionPending, signOutPending, session, user,
                 profile, loading, calls, mitVars, cliVars, newVars, colVars,
                 profileEmail>>

\* ------------------------------------------------------------ ProfilePage
Names   == {"", "n"}       \* contents of the fullName input
Wallets == {"", "w"}       \* contents of a wallet input

ProfileLoginError == "You must be logged in to update your profile."
ProfileUpdated    == "Profile updated successfully!"

PpInit == [pc |-> "idle", message |-> "", error |-> ""]

\* variant: the write replaces the row, so that the columns it does not name
\* take their defaults
UpsertBalanceReplacing(id) == 0

\* the pgc_balance of the row after upsert(updates, {onConflict: 'id'}):
\* updates names no pgc_balance, so that an existing row keeps its own and an
\* inserted row takes the column default
UpsertBalance(id) == IF clientRows[id] > 0 THEN pgc_balance[id] ELSE 0

\* email TEXT UNIQUE NOT NULL: no other row holds the address
EmailUniqueOk(id, addr) ==
  /\ addr # "none"
  /\ \A c \in ExistingClients : c = id \/ email[c] # addr

\* handleUpdateProfile with the form holding the three inputs, up to the
\* answer of the upsert; on success refreshProfile() starts
\* fetchAndSetProfile (slot p2), which the handler awaits
HandleUpdateProfile(fullName, solanaWallet, bnbWallet, ok) ==
  /\ pp.pc = "idle"
  /\ calls["p2"].pc = "idle"
  /\ IF user = "none" \/ profile = "none"
     THEN /\ ok
          /\ pp' = [pp EXCEPT !.message = "", !.error = ProfileLoginError]
          /\ UNCHANGED <<clientRows, pgc_balance, colVars, calls, loading>>
     ELSE IF ok /\ EmailUniqueOk(user, profileEmail)
     THEN /\ clientRows' = [clientRows EXCEPT ![user] = 1]
          /\ pgc_balance' = [pgc_balance EXCEPT ![user] = UpsertBalance(user)]
          /\ email' = [email EXCEPT ![user] = profileEmail]
          /\ full_name' = [full_name EXCEPT ![user] = fullName]
          /\ solana_wallet' = [solana_wallet EXCEPT ![user] = solanaWallet]
          /\ bnb_wallet' = [bnb_wallet EXCEPT ![user] = bnbWallet]
          /\ pp' = [pp EXCEPT !.pc = "refresh", !.message = "", !.error = ""]
          /\ \E okSelect \in BOOLEAN :
               /\ loading' = TRUE
               /\ calls' = [calls EXCEPT !["p2"] =
                    [pc |-> "select", user |-> user,
                     res |-> IF okSelect THEN "row" ELSE "error"]]
     ELSE /\ pp' = [pp EXCEPT !.message = "", !.error = "updateError.message"]
          /\ UNCHANGED <<clientRows, pgc_balance, colVars, calls, loading>>
  /\ UNCHANGED <<authUser, sessionPending, signOutPending, session, user,
                 profile, profileEmail, cl, ec>>
  /\ UNCHANGED <<rewardVars, mitVars, defVars, newVars>>

\* handleUpdateProfile after the awaited refreshProfile() returned
ProfileRefreshed ==
  /\ pp.pc = "refresh"
  /\ calls["p2"].pc = "idle"
  /\ pp' = [pp EXCEPT !.pc = "idle", !.message = ProfileUpdated]
  /\ UNCHANGED <<clientRows, pgc_balance, colVars, authUser, sessionPending,
                 signOutPending, session, user, profile, profileEmail,
                 loading, calls, cl, ec>>
  /\ UNCHANGED <<rewardVars, mitVars, defVars, newVars>>

\* ------------------------------------------------- admin clients list page
ClInit ==
  [pc |-> "unmounted", clients |-> {}, showDeleteModal |-> FALSE,
   clientToDelete |-> "none", error |-> "null"]

\* every variable the clients list page and the edit page leave alone
nonClientVars == <<authUser, sessionPending, signOutPending, session, user,
                   profile, profileEmail, loading, calls, pp,
                   pgc_amount, nextId, ap, dp, lastCall, writeFailed, revoked,
                   storage, now, nextEntryId, sp, mp, defVars,
                   nextConsumptionId, cf, cm, admVars, lp>>

\* useEffect on mount: fetchClients answered with the rows of clients
ClientsMount ==
  /\ cl.pc = "unmounted"
  /\ cl' = [cl EXCEPT !.pc = "ready", !.clients = ExistingClients]
  /\ UNCHANGED <<clientRows, pgc_balance, colVars, client_rewards,
                 plastic_mitigation_entries, mitigation_activity_images,
                 petgas_consumption_entries, ec>>
  /\ UNCHANGED nonClientVars

\* handleDeleteRequest(client) from the Delete button of a listed client
HandleDeleteClientRequest(c) ==
  /\ cl.pc = "ready"
  /\ ~cl.showDeleteModal
  /\ c \in cl.clients
  /\ cl' = [cl EXCEPT !.clientToDelete = c, !.showDeleteModal = TRUE]
  /\ UNCHANGED <<clientRows, pgc_balance, colVars, client_rewards,
                 plastic_mitigation_entries, mitigation_activity_images,
                 petgas_consumption_entries, ec>>
  /\ UNCHANGED nonClientVars

\* variant: the foreign key on clients(id) does not cascade
CascadeOwnedKeepAll(rows, c) == rows

\* client_id REFERENCES clients(id) ON DELETE CASCADE: what a table that
\* references clients holds after DELETE FROM clients WHERE id = c
CascadeOwned(rows, c) == {x \in rows : x.client_id # c}

\* entry_id REFERENCES plastic_mitigation_entries(id) ON DELETE CASCADE: the
\* image rows left once the entries of client c are gone
CascadeImages(c) ==
  LET gone == {x.id : x \in plastic_mitigation_entries
                            \ CascadeOwned(plastic_mitigation_entries, c)}
  IN  {i \in mitigation_activity_images : i.entry_id \notin gone}

\* confirmDelete: DELETE FROM clients WHERE id = c is answered; the rows of
\* client_rewards, plastic_mitigation_entries and petgas_consumption_entries
\* that reference the client, and the image rows of those entries, go with it
ConfirmDelete(ok) ==
  /\ cl.pc = "ready"
  /\ cl.clientToDelete # "none"
  /\ LET c == cl.clientToDelete
     IN IF ok
        THEN /\ clientRows' = [clientRows EXCEPT ![c] = 0]
             /\ client_rewards' = CascadeOwned(client_rewards, c)
             /\ plastic_mitigation_entries' =
                  CascadeOwned(plastic_mitigation_entries, c)
             /\ petgas_consumption_entries' =
                  CascadeOwned(petgas_consumption_entries, c)
             /\ mitigation_activity_images' = CascadeImages(c)
             /\ cl' = [cl EXCEPT !.clients = @ \ {c}, !.showDeleteModal = FALSE,
                                 !.clientToDelete = "none"]
        ELSE /\ cl' = [cl EXCEPT !.error = "Failed to delete client."]
             /\ UNCHANGED <<clientRows, client_rewards, plastic_mitigation_entries,
                            petgas_consumption_entries, mitigation_activity_images>>
  /\ UNCHANGED <<pgc_balance, colVars, ec>>
  /\ UNCHANGED nonClientVars

\* ---------------------------------------------------------- EditClientPage
NoEditClient ==
  [full_name |-> "", solana_wallet |-> "", bnb_wallet |-> "", pgc_balance |-> 0]

EcInit ==
  [pc |-> "unmounted", clientId |-> "none", client |-> NoEditClient,
   error |-> "null", successMessage |-> "null"]

\* data.full_name || '' and its like
OrEmpty(v) == IF v = "null" THEN "" ELSE v

\* useEffect: the row of the route's clientId is read into the form
EditMount(c) ==
  /\ ec.pc \in {"unmounted", "ready"}
  /\ clientRows[c] = 1
  /\ ec' = [EcInit EXCEPT !.pc = "ready", !.clientId = c,
              !.client = [full_name |-> OrEmpty(full_name[c]),
                          solana_wallet |-> OrEmpty(solana_wallet[c]),
                          bnb_wallet |-> OrEmpty(bnb_wallet[c]),
                          pgc_balance |-> pgc_balance[c]]]
  /\ UNCHANGED <<clientRows, pgc_balance, colVars, client_rewards,
                 plastic_mitigation_entries, mitigation_activity_images,
                 petgas_consumption_entries, cl>>
  /\ UNCHANGED nonClientVars

\* const updates = {full_name, solana_wallet, bnb_wallet, pgc_balance, updated_at}
EditUpdates(c, form) ==
  [full_name |-> form.full_name, solana_wallet |-> form.solana_wallet,
   bnb_wallet |-> form.bnb_wallet, pgc_balance |-> form.pgc_balance]

\* handleSubmit with the name and wallet inputs holding the given contents
\* and the balance input left as loaded, up to the answer of the update (an
\* update that matches no row is answered without error)
EditSubmit(fullName, solanaWallet, bnbWallet, ok) ==
  /\ ec.pc = "ready"
  /\ LET c    == ec.clientId
         form == [ec.client EXCEPT !.full_name = fullName,
                                   !.solana_wallet = solanaWallet,
                                   !.bnb_wallet = bnbWallet]
         updates == EditUpdates(c, form)
     IN IF ok
        THEN /\ IF clientRows[c] = 1
                THEN /\ full_name' = [full_name EXCEPT ![c] = updates.full_name]
                     /\ solana_wallet' = [solana_wallet EXCEPT ![c] = updates.solana_wallet]
                     /\ bnb_wallet' = [bnb_wallet EXCEPT ![c] = updates.bnb_wallet]
                     /\ pgc_balance' = [pgc_balance EXCEPT ![c] = updates.pgc_balance]
                ELSE UNCHANGED <<full_name, solana_wallet, bnb_wallet, pgc_balance>>
             /\ ec' = [ec EXCEPT !.client = form, !.error = "null",
                         !.successMessage = "Client profile updated successfully!"]
        ELSE /\ ec' = [ec EXCEPT !.client = form, !.successMessage = "null",
                         !.error = "Failed to update client profile."]
             /\ UNCHANGED <<full_name, solana_wallet, bnb_wallet, pgc_balance>>
  /\ UNCHANGED <<clientRows, email, client_rewards,
                 plastic_mitigation_entries, mitigation_activity_images,
                 petgas_consumption_entries, cl>>
  /\ UNCHANGED nonClientVars

\* ------------------------------------- AdminAuthProvider and the layouts
ListPath    == "/admin/data/mitigation-entries"
AdminPaths  == {"/admin/login", "/admin/dashboard", "/admin/clients", ListPath}
ClientPaths == {"/login", "/client/dashboard", "/client/profile"}

\* every variable but those of the admin provider and the two browsers
nonAdmVars == <<clientRows, pgc_balance, authUser, sessionPending,
                signOutPending, session, user, profile, loading, calls,
                rewardVars, mitVars, defVars, cliVars, conVars, lp, colVars,
                profileEmail>>

\* AdminLoginPage.handleLogin with credentials the service accepts:
\* signInWithEmailAndPassword, then router.push('/admin/dashboard').  (With
\* other credentials only the page's own error changes.)
AdminHandleLogin ==
  /\ adminPath = "/admin/login"
  /\ ~adminLoading /\ adminUser = "none"
  /\ adminAuthUser' = "admin"
  /\ adminPath' = "/admin/dashboard"
  /\ UNCHANGED <<adminUser, adminLoading, adminSignOutPending, clientPath>>
  /\ UNCHANGED nonAdmVars

\* the onAuthStateChanged callback: once after the provider mounted, and
\* after every change of the service's user
AdminOnAuthStateChanged ==
  /\ \/ adminLoading /\ ~adminSignOutPending
     \/ adminUser # adminAuthUser
  /\ adminUser' = adminAuthUser
  /\ adminLoading' = FALSE
  /\ UNCHANGED <<adminAuthUser, adminSignOutPending, adminPath, clientPath>>
  /\ UNCHANGED nonAdmVars

\* variant: the layout has no early return before the page
AdminLayoutRenderNoGuard ==
  IF adminLoading THEN "spinner" ELSE "children"

\* what AdminLayoutContent returns: the spinner, null, or the page ({children})
AdminLayoutRender ==
  IF adminLoading THEN "spinner"
  ELSE IF \/ adminUser = "none" /\ adminPath # "/admin/login"
          \/ adminUser # "none" /\ adminPath = "/admin/login"
       THEN "null"
       ELSE "children"

\* the router.replace of the layout's effect ("none": no call)
AdminLayoutReplace ==
  IF adminLoading THEN "none"
  ELSE IF adminUser = "none" /\ adminPath # "/admin/login" THEN "/admin/login"
  ELSE IF adminUser # "none" /\ adminPath = "/admin/login" THEN "/admin/dashboard"
  ELSE "none"

\* the layout's useEffect runs its router.replace
AdminLayoutEffect ==
  /\ AdminLayoutReplace # "none"
  /\ adminPath' = AdminLayoutReplace
  /\ UNCHANGED <<adminAuthUser, adminUser, adminLoading, adminSignOutPending,
                 clientPath>>
  /\ UNCHANGED nonAdmVars

\* the admin opens another admin URL
AdminNavigate(p) ==
  /\ p \in AdminPaths \ {adminPath}
  /\ adminPath' = p
  /\ UNCHANGED <<adminAuthUser, adminUser, adminLoading, adminSignOutPending,
                 clientPath>>
  /\ UNCHANGED nonAdmVars

\* handleSignOut of the header's Logout button, up to the await of
\* firebaseSignOut
AdminSignOut ==
  /\ AdminLayoutRender = "children"
  /\ adminUser # "none" /\ adminPath # "/admin/login"
  /\ ~adminSignOutPending
  /\ adminLoading' = TRUE
  /\ adminSignOutPending' = TRUE
  /\ UNCHANGED <<adminAuthUser, adminUser, adminPath, clientPath>>
  /\ UNCHANGED nonAdmVars

\* signOut after the await (setAdminUser(null), or the catch; finally
\* setLoading(false)), then handleSignOut's router.replace('/admin/login')
AdminSignOutResolved(ok) ==
  /\ adminSignOutPending
  /\ adminSignOutPending' = FALSE
  /\ adminAuthUser' = IF ok THEN "none" ELSE adminAuthUser
  /\ adminUser' = IF ok THEN "none" ELSE adminUser
  /\ adminLoading' = FALSE
  /\ adminPath' = "/admin/login"
  /\ UNCHANGED clientPath
  /\ UNCHANGED nonAdmVars

\* what ClientLayout shows: the loading screen, null, or the page ({children})
ClientLayoutRender ==
  IF loading THEN "spinner"
  ELSE IF user = "none" THEN "null"
  ELSE "children"

\* the router.replace of ClientLayout's render ("none": no call)
ClientLayoutReplace ==
  IF ~loading /\ user = "none" THEN "/login" ELSE "none"

\* ClientLayout, mounted for a /client path, runs its router.replace
ClientLayoutRedirect ==
  /\ clientPath # "/login"
  /\ ClientLayoutReplace # "none"
  /\ clientPath' = ClientLayoutReplace
  /\ UNCHANGED <<adminAuthUser, adminUser, adminLoading, adminSignOutPending,
                 adminPath>>
  /\ UNCHANGED nonAdmVars

\* the client opens another URL
ClientNavigate(p) ==
  /\ p \in ClientPaths \ {clientPath}
  /\ clientPath' = p
  /\ UNCHANGED <<adminAuthUser, adminUser, adminLoading, adminSignOutPending,
                 adminPath>>
  /\ UNCHANGED nonAdmVars

\* ClientLayout.handleSignOut after signOut() returned: the provider's state
\* as signOut leaves it, then router.replace('/login')
LayoutSignOutResolved ==
  /\ signOutPending
  /\ signOutPending' = FALSE
  /\ user' = "none"
  /\ session' = "none"
  /\ profile' = "none"
  /\ profileEmail' = "none"
  /\ loading' = FALSE
  /\ clientPath' = "/login"
  /\ UNCHANGED <<clientRows, pgc_balance, authUser, sessionPending, calls>>
  /\ UNCHANGED <<rewardVars, mitVars, defVars, cliVars, conVars, lp, colVars>>
  /\ UNCHANGED <<adminAuthUser, adminUser, adminLoading, adminSignOutPending,
                 adminPath>>

\* ------------------------------------------- ListMitigationEntriesPage
ENTRIES_PER_PAGE == 15

\* the values of the status select, and '' of useState
StatusFilters == {"", "all", "pending", "approved", "rejected"}

ListFetchError == "Failed to fetch entries."

\* every variable but the list page's
nonLpVars == <<clientRows, pgc_balance, authUser, sessionPending,
               signOutPending, session, user, profile, loading, calls,
               rewardVars, mitVars, defVars, cliVars, conVars, admVars,
               colVars, profileEmail>>

\* the page's useState values; fetches: the queries awaiting their answer
LpInit ==
  [pc |-> "unmounted", entries |-> {}, loading |-> TRUE, error |-> "null",
   statusFilter |-> "", page |-> 0, totalCount |-> 0, fetches |-> {}]

\* Math.ceil(totalCount / ENTRIES_PER_PAGE)
TotalPages(p) == (p.totalCount + ENTRIES_PER_PAGE - 1) \div ENTRIES_PER_PAGE

\* the rows the query's optional .eq('status', statusFilter) keeps
MatchingEntries(filter) ==
  {x \in plastic_mitigation_entries : filter \in {"", "all"} \/ x.status = filter}

\* .order('created_at', {ascending: false}).range(lower, upper): ids grow with
\* the time of creation, so a row's position is the number of newer rows
RangeOf(rows, lower, upper) ==
  {x.id : x \in {y \in rows :
                   LET rank == Cardinality({z \in rows : z.id > y.id})
                   IN lower <= rank /\ rank <= upper}}

\* the store answers a range whose first position lies beyond the number of
\* rows with 416 Range Not Satisfiable
RangeSatisfiable(lower, total) == lower <= total

\* fetchMitigationEntries up to its await, for the page and filter of the
\* render whose effect calls it
FetchMitigationEntries(p) ==
  [p EXCEPT !.loading = TRUE, !.error = "null",
            !.fetches = @ \cup {[page |-> p.page, statusFilter |-> p.statusFilter]}]

\* the page is opened by a signed-in admin: the effect runs the first fetch
LpMount ==
  /\ adminPath = ListPath
  /\ ~adminLoading /\ adminUser # "none"
  /\ lp' = FetchMitigationEntries([LpInit EXCEPT !.pc = "mounted"])
  /\ UNCHANGED nonLpVars

\* fetchMitigationEntries after its await
LpFetchAnswered(f, ok) ==
  /\ lp.pc = "mounted"
  /\ f \in lp.fetches
  /\ LET rows  == MatchingEntries(f.statusFilter)
         count == Cardinality(rows)
         lower == f.page * ENTRIES_PER_PAGE
         upper == (f.page + 1) * ENTRIES_PER_PAGE - 1
     IN lp' = IF ok /\ RangeSatisfiable(lower, count)
              THEN [lp EXCEPT !.entries = RangeOf(rows, lower, upper),
                              !.totalCount = count,
                              !.loading = FALSE,
                              !.fetches = @ \ {f}]
              ELSE [lp EXCEPT !.error = ListFetchError,
                              !.loading = FALSE,
                              !.fetches = @ \ {f}]
  /\ UNCHANGED nonLpVars

\* the pagination controls are part of the page
LpControlsShown(p) ==
  /\ p.pc = "mounted"
  /\ ~p.loading /\ p.error = "null" /\ p.entries # {}
  /\ TotalPages(p) > 1

\* setPage of a button, and the effect that follows a changed page
LpSetPage(n) ==
  lp' = IF n = lp.page THEN lp
        ELSE FetchMitigationEntries([lp EXCEPT !.page = n])

\* Previous: setPage(p => Math.max(0, p - 1))
LpPrevious ==
  /\ LpControlsShown(lp)
  /\ lp.page # 0
  /\ LpSetPage(Max(0, lp.page - 1))
  /\ UNCHANGED nonLpVars

\* Next: setPage(p => Math.min(totalPages - 1, p + 1))
LpNext ==
  /\ LpControlsShown(lp)
  /\ lp.page # TotalPages(lp) - 1
  /\ LpSetPage(IF TotalPages(lp) - 1 < lp.page + 1 THEN TotalPages(lp) - 1
                                                  ELSE lp.page + 1)
  /\ UNCHANGED nonLpVars

\* handleStatusFilterChange, and the effect that follows
HandleStatusFilterChange(v) ==
  /\ lp.pc = "mounted"
  /\ v \in StatusFilters \ {"", lp.statusFilter}
  /\ lp' = FetchMitigationEntries([lp EXCEPT !.statusFilter = v, !.page = 0])
  /\ UNCHANGED nonLpVars


\* -------------------------------------------------------------- initial
InitOther ==
  /\ clientRows = [c \in ClientIds |-> IF c = "u1" THEN 0 ELSE 1]
  /\ pgc_balance = [c \in ClientIds |-> 0]
  /\ pgc_amount = [r \in RewardIds |-> IF r = "r1" THEN 1 ELSE 2]
  /\ client_rewards = {}
  /\ nextId = 1
  /\ ap = [s \in AssignSessions |-> ApInit]
  /\ dp = [d \in DetailSessions |-> DpInit]
  /\ lastCall = "ok"
  /\ writeFailed = FALSE
  /\ revoked = {}
  /\ authUser = "none"
  /\ sessionPending = TRUE
  /\ signOutPending = FALSE
  /\ session = "none"
  /\ user = "none"
  /\ profile = "none"
  /\ loading = TRUE
  /\ calls = [k \in ProfileCalls |-> IdleCall]
  /\ storage = {}
  /\ now = 0
  /\ mitigation_activity_images = {}
  /\ sp = SpInit
  /\ mp = [m \in ManageSessions |-> MpInit]
  /\ rewardRows = RewardIds
  /\ rp = RpInit
  /\ email = [c \in ClientIds |-> IF c = "c1" THEN UserEmail(c) ELSE "null"]
  /\ full_name = [c \in ClientIds |-> "null"]
  /\ solana_wallet = [c \in ClientIds |-> "null"]
  /\ bnb_wallet = [c \in ClientIds |-> "null"]
  /\ profileEmail = "none"
  /\ pp = PpInit
  /\ cl = ClInit
  /\ ec = EcInit
  /\ petgas_consumption_entries = {}
  /\ nextConsumptionId = 1
  /\ cf = CfInit
  /\ cm = CmInit
  /\ adminAuthUser = "none"
  /\ adminUser = "none"
  /\ adminLoading = TRUE
  /\ adminSignOutPending = FALSE
  /\ adminPath = "/admin/dashboard"
  /\ clientPath = "/client/dashboard"
  /\ lp = LpInit

Init ==
  /\ InitOther
  /\ plastic_mitigation_entries = {}
  /\ nextEntryId = 1

\* MaxListed entries of 1 kg submitted by c1 without images, none reviewed
SeededEntries ==
  {[id |-> i, client_id |-> "c1", mitigated_plastic_kg |-> 1,
    status |-> StatusDefault] : i \in 1..MaxListed}

\* the state after those submissions
InitPages ==
  /\ InitOther
  /\ plastic_mitigation_entries = SeededEntries
  /\ nextEntryId = MaxListed + 1

\* two admins on the assign page, one on a client's details page
Next ==
  \/ \E s \in AssignSessions : AssignMount(s)
  \/ \E s \in AssignSessions : AssignFetchRewards(s)
  \/ \E s \in AssignSessions, c \in ClientIds, r \in RewardIds, ok \in BOOLEAN :
        AssignSubmit(s, c, r, ok)
  \/ \E s \in AssignSessions, ok \in BOOLEAN : AssignUpdateBalance(s, ok)
  \/ \E d \in {"d1"}, c \in ClientIds : DetailMount(d, c)
  \/ \E d \in {"d1"} : DetailFetchRewards(d)
  \/ \E d \in {"d1"}, e \in 1..MaxEntries : HandleRevokeRequest(d, e)
  \/ \E d \in {"d1"}, ok \in BOOLEAN : ConfirmRevokeReward(d, ok)
  \/ \E d \in {"d1"}, ok \in BOOLEAN : RevokeUpdateBalance(d, ok)

Spec == Init /\ [][Next]_vars

\* one admin on the assign page, two on the same client's details page
NextRevoke ==
  \/ \E s \in {"a1"} : AssignMount(s)
  \/ \E s \in {"a1"} : AssignFetchRewards(s)
  \/ \E s \in {"a1"}, c \in ClientIds, r \in RewardIds, ok \in BOOLEAN :
        AssignSubmit(s, c, r, ok)
  \/ \E s \in {"a1"}, ok \in BOOLEAN : AssignUpdateBalance(s, ok)
  \/ \E d \in DetailSessions, c \in ClientIds : DetailMount(d, c)
  \/ \E d \in DetailSessions : DetailFetchRewards(d)
  \/ \E d \in DetailSessions, e \in 1..MaxEntries : HandleRevokeRequest(d, e)
  \/ \E d \in DetailSessions, ok \in BOOLEAN : ConfirmRevokeReward(d, ok)
  \/ \E d \in DetailSessions, ok \in BOOLEAN : RevokeUpdateBalance(d, ok)

SpecRevoke == Init /\ [][NextRevoke]_vars

\* one client AuthProvider with up to two fetchAndSetProfile calls in flight
NextAuth ==
  \/ \E k \in ProfileCalls, ok \in BOOLEAN : GetSessionResolved(k, ok)
  \/ \E event \in {"SIGNED_IN", "USER_UPDATED", "TOKEN_REFRESHED"},
        k \in ProfileCalls, ok \in BOOLEAN : AuthEventWithUser(event, k, ok)
  \/ AuthEventSignedOut
  \/ \E k \in ProfileCalls, ok \in BOOLEAN : FetchSelectAnswered(k, ok)
  \/ \E k \in ProfileCalls : FetchInsertAnswered(k)
  \/ \E k \in ProfileCalls, ok \in BOOLEAN : RefreshProfile(k, ok)
  \/ SignOut
  \/ SignOutResolved

SpecAuth == Init /\ [][NextAuth]_vars

\* a client signing in and submitting plastic mitigation activities
NextSubmit ==
  \/ AuthEventWithUser("SIGNED_IN", "p1", TRUE)
  \/ FetchSelectAnswered("p1", TRUE)
  \/ FetchInsertAnswered("p1")
  \/ \E kg \in KgInputs, files \in SeqUpTo(FileNames, MaxImages) :
       SubmitMitigation(kg, files)
  \/ \E ok \in BOOLEAN, t \in 0..MaxClock : UploadAnswered(ok, t)
  \/ \E ok \in BOOLEAN, removeOk \in BOOLEAN : EntryInsertAnswered(ok, removeOk)
  \/ \E ok \in BOOLEAN : ImageRowsAnswered(ok)

SpecSubmit == Init /\ [][NextSubmit]_vars

\* a client submitting entries without images, two admins reviewing the
\* first of them
NextReview ==
  \/ AuthEventWithUser("SIGNED_IN", "p1", TRUE)
  \/ FetchSelectAnswered("p1", TRUE)
  \/ FetchInsertAnswered("p1")
  \/ SubmitMitigation("1", <<>>)
  \/ EntryInsertAnswered(TRUE, TRUE)
  \/ \E m \in ManageSessions : ManageMount(m, 1)
  \/ \E m \in ManageSessions, kg \in KgEdits, s \in Statuses, ok \in BOOLEAN :
       HandleUpdateEntry(m, kg, s, ok)
  \/ \E m \in ManageSessions : ManageRefetch(m)

SpecReview == Init /\ [][NextReview]_vars

\* a client submitting entries with images, two admins deleting images of
\* the first entry
NextImages ==
  \/ AuthEventWithUser("SIGNED_IN", "p1", TRUE)
  \/ FetchSelectAnswered("p1", TRUE)
  \/ FetchInsertAnswered("p1")
  \/ \E files \in {<<"a.jpg">>, <<"a.jpg", "b.jpg">>} : SubmitMitigation("1", files)
  \/ UploadAnswered(TRUE, now)
  \/ \E ok \in BOOLEAN, removeOk \in BOOLEAN : EntryInsertAnswered(ok, removeOk)
  \/ \E ok \in BOOLEAN : ImageRowsAnswered(ok)
  \/ \E m \in ManageSessions : ManageMount(m, 1)
  \/ \E m \in ManageSessions, storageOk \in BOOLEAN :
       \E img \in mp[m].entry.mitigation_activity_images :
         HandleDeleteImage(m, img, storageOk)
  \/ \E m \in ManageSessions, ok \in BOOLEAN : DeleteImageRowAnswered(m, ok)
  \/ \E m \in ManageSessions : ManageRefetch(m)

SpecImages == Init /\ [][NextImages]_vars


\* an admin assigning rewards, another deleting reward definitions
NextDefinitions ==
  \/ AssignMount("a1")
  \/ AssignFetchRewards("a1")
  \/ \E c \in ClientIds, r \in RewardIds, ok \in BOOLEAN : AssignSubmit("a1", c, r, ok)
  \/ \E ok \in BOOLEAN : AssignUpdateBalance("a1", ok)
  \/ DefinitionsMount
  \/ \E r \in RewardIds : HandleDeleteRequest(r)
  \/ \E ok \in BOOLEAN : ConfirmDeleteReward(ok)

SpecDefinitions == Init /\ [][NextDefinitions]_vars

\* a client editing the own profile while an admin assigns rewards to that
\* client and another deletes the client
NextProfile ==
  \/ AuthEventWithUser("SIGNED_IN", "p1", TRUE)
  \/ \E k \in ProfileCalls : FetchSelectAnswered(k, TRUE)
  \/ \E k \in ProfileCalls : FetchInsertAnswered(k)
  \/ \E f \in {<<"n", "w", "">>, <<"", "", "w">>}, ok \in BOOLEAN :
       HandleUpdateProfile(f[1], f[2], f[3], ok)
  \/ ProfileRefreshed
  \/ ClientsMount
  \/ HandleDeleteClientRequest("u1")
  \/ \E ok \in BOOLEAN : ConfirmDelete(ok)
  \/ AssignMount("a1")
  \/ AssignFetchRewards("a1")
  \/ \E ok \in BOOLEAN : AssignSubmit("a1", "u1", "r1", ok)
  \/ \E ok \in BOOLEAN : AssignUpdateBalance("a1", ok)

SpecProfile == Init /\ [][NextProfile]_vars

\* an admin editing a client while another assigns rewards
NextEdit ==
  \/ \E c \in ClientIds : EditMount(c)
  \/ \E n \in Names, w1 \in Wallets, w2 \in Wallets, ok \in BOOLEAN :
       EditSubmit(n, w1, w2, ok)
  \/ AssignMount("a1")
  \/ AssignFetchRewards("a1")
  \/ \E c \in ClientIds, r \in RewardIds, ok \in BOOLEAN : AssignSubmit("a1", c, r, ok)
  \/ \E ok \in BOOLEAN : AssignUpdateBalance("a1", ok)

SpecEdit == Init /\ [][NextEdit]_vars

\* a client with an entry, an image, a consumption entry and a reward, and
\* an admin deleting clients
NextCascade ==
  \/ AuthEventWithUser("SIGNED_IN", "p1", TRUE)
  \/ FetchSelectAnswered("p1", TRUE)
  \/ FetchInsertAnswered("p1")
  \/ SubmitMitigation("1", <<"a.jpg">>)
  \/ UploadAnswered(TRUE, now)
  \/ EntryInsertAnswered(TRUE, TRUE)
  \/ ImageRowsAnswered(TRUE)
  \/ SubmitConsumption("2", TRUE)
  \/ AssignMount("a1")
  \/ AssignFetchRewards("a1")
  \/ AssignSubmit("a1", "u1", "r1", TRUE)
  \/ AssignUpdateBalance("a1", TRUE)
  \/ ClientsMount
  \/ \E c \in ClientIds : HandleDeleteClientRequest(c)
  \/ \E ok \in BOOLEAN : ConfirmDelete(ok)

SpecCascade == Init /\ [][NextCascade]_vars

\* a client submitting mitigation and consumption entries, an admin editing
\* the amounts of both
NextAmounts ==
  \/ AuthEventWithUser("SIGNED_IN", "p1", TRUE)
  \/ FetchSelectAnswered("p1", TRUE)
  \/ FetchInsertAnswered("p1")
  \/ \E kg \in KgInputs : SubmitMitigation(kg, <<>>)
  \/ \E ok \in BOOLEAN : EntryInsertAnswered(ok, TRUE)
  \/ \E liters \in KgInputs, ok \in BOOLEAN : SubmitConsumption(liters, ok)
  \/ \E e \in 1..MaxMitigations : ManageMount("m1", e)
  \/ \E kg \in KgEdits, ok \in BOOLEAN :
       HandleUpdateEntry("m1", kg, mp["m1"].editableStatus, ok)
  \/ ManageRefetch("m1")
  \/ \E e \in 1..MaxConsumptions : ConsumptionMount(e)
  \/ \E liters \in LiterEdits, ok \in BOOLEAN :
       HandleUpdateConsumptionEntry(liters, ok)
  \/ ConsumptionRefetch

SpecAmounts == Init /\ [][NextAmounts]_vars

\* one admin on the assign page, one on a client's details page
NextPair ==
  \/ AssignMount("a1")
  \/ AssignFetchRewards("a1")
  \/ \E c \in ClientIds, r \in RewardIds, ok \in BOOLEAN :
        AssignSubmit("a1", c, r, ok)
  \/ \E ok \in BOOLEAN : AssignUpdateBalance("a1", ok)
  \/ \E c \in ClientIds : DetailMount("d1", c)
  \/ DetailFetchRewards("d1")
  \/ \E e \in 1..MaxEntries : HandleRevokeRequest("d1", e)
  \/ \E ok \in BOOLEAN : ConfirmRevokeReward("d1", ok)
  \/ \E ok \in BOOLEAN : RevokeUpdateBalance("d1", ok)

SpecPair == Init /\ [][NextPair]_vars

\* the client provider under client/layout.tsx and the admin provider
\* under admin/layout.tsx
NextLayout ==
  \/ \E ok \in BOOLEAN : GetSessionResolved("p1", ok)
  \/ \E event \in {"SIGNED_IN", "TOKEN_REFRESHED"}, ok \in BOOLEAN :
        AuthEventWithUser(event, "p1", ok)
  \/ AuthEventSignedOut
  \/ \E ok \in BOOLEAN : FetchSelectAnswered("p1", ok)
  \/ FetchInsertAnswered("p1")
  \/ SignOut
  \/ LayoutSignOutResolved
  \/ ClientLayoutRedirect
  \/ \E p \in ClientPaths : ClientNavigate(p)
  \/ AdminHandleLogin
  \/ AdminOnAuthStateChanged
  \/ AdminLayoutEffect
  \/ \E p \in AdminPaths : AdminNavigate(p)
  \/ AdminSignOut
  \/ \E ok \in BOOLEAN : AdminSignOutResolved(ok)

SpecLayout == Init /\ [][NextLayout]_vars

\* an admin signs in and pages through the list of entries while the
\* newest entry is approved in another tab
NextPages ==
  \/ AdminOnAuthStateChanged
  \/ AdminLayoutEffect
  \/ AdminHandleLogin
  \/ AdminNavigate(ListPath)
  \/ LpMount
  \/ \E f \in lp.fetches, ok \in BOOLEAN : LpFetchAnswered(f, ok)
  \/ LpPrevious
  \/ LpNext
  \/ \E v \in {"all", "pending", "approved"} : HandleStatusFilterChange(v)
  \/ ManageMount("m1", MaxListed)
  \/ HandleUpdateEntry("m1", mp["m1"].editableKg, "approved", TRUE)
  \/ ManageRefetch("m1")

SpecPages == InitPages /\ [][NextPages]_vars

\* ------------------------------------------------------------ properties
EntryIds == {x.id : x \in client_rewards}

\* no reward operation is between its two writes
Quiescent ==
  /\ \A s \in AssignSessions : ap[s].pc # "update"
  /\ \A d \in DetailSessions : dp[d].pc # "update"

\* the step in which tab s gets the answer to its balance write
AssignAnswered(s) == ap[s].pc = "update" /\ ap'[s].pc = "ready"

\* the step in which tab d gets the answer to its balance write
RevokeAnswered(d) == dp[d].pc = "update" /\ dp'[d].pc = "ready"

\* C1: once every assign and revoke operation has completed and no write of
\* any of them failed, each client's stored balance is the sum of the point
\* values of the ledger entries the client holds.
C1_BalanceIsLedgerSum ==
  (Quiescent /\ ~writeFailed) =>
     \A c \in ExistingClients : pgc_balance[c] = LedgerSum(c)

\* C2: assign and revoke are atomic to a reader of the store: while the
\* balance write of an assignment is outstanding its ledger entry is not
\* visible, and while the balance write of a revocation is outstanding its
\* ledger entry is still visible.
C2_AtomicToObservers ==
  /\ \A s \in AssignSessions :
        ap[s].pc = "update" => ap[s].op.entry \notin EntryIds
  /\ \A d \in DetailSessions :
        dp[d].pc = "update" => dp[d].clientRewardToRevoke.id \in EntryIds

\* C3: an assignment that completes writes the balance its tab read when the
\* page loaded plus the reward's point value; when another tab that read the
\* same balance B has completed an assignment for the same client (the store
\* holds B+Vt), the store ends with B+Vs and not with B+Vt+Vs.
C3_LostUpdate ==
  [][\A s \in AssignSessions : \A t \in AssignSessions \ {s} :
       LET c == ap[s].op.client.value
           B == ap[s].op.client.current_pgc_balance
           Vs == ap[s].op.reward.pgc_amount
           Vt == ap[t].successMessage.pgc_amount
       IN (/\ AssignAnswered(s) /\ lastCall' = "ok"
           /\ ap[t].pc = "ready"
           /\ ap[t].successMessage.client = c
           /\ c \in DOMAIN ap[t].clients /\ ap[t].clients[c] = B
           /\ pgc_balance[c] = B + Vt)
          => /\ pgc_balance'[c] = B + Vs
             /\ pgc_balance'[c] # B + Vt + Vs]_vars

\* a lost update has happened: both tabs read balance B, both assignments
\* succeeded, both ledger entries are there, and the balance shows only one
C3_Witness ==
  /\ ~writeFailed
  /\ \A s \in AssignSessions :
       /\ ap[s].pc = "ready"
       /\ ap[s].successMessage.client = "c1"
       /\ "c1" \in DOMAIN ap[s].clients
       /\ ap[s].clients["c1"] = ap["a1"].clients["c1"]
  /\ ap["a1"].successMessage.reward # ap["a2"].successMessage.reward
  /\ {x.reward_id : x \in client_rewards} = RewardIds
  /\ Cardinality(client_rewards) = 2
  /\ pgc_balance["c1"] \in
        {ap["a1"].clients["c1"] + ap[s].successMessage.pgc_amount :
           s \in AssignSessions}
  /\ pgc_balance["c1"] < LedgerSum("c1") + ap["a1"].clients["c1"]

\* C4: an assignment adds exactly the reward's point value to the stored
\* balance and the revocation of that entry subtracts exactly that value, so
\* the pair leaves the stored balance where it was, whenever the pages were
\* loaded.
C4_RoundTrip ==
  [][/\ \A s \in AssignSessions :
          (AssignAnswered(s) /\ lastCall' = "ok")
          => pgc_balance'[ap[s].op.client.value]
               = pgc_balance[ap[s].op.client.value] + ap[s].op.reward.pgc_amount
     /\ \A d \in DetailSessions :
          (/\ RevokeAnswered(d) /\ lastCall' # "err" /\ ~dp[d].wasRevoked
           /\ pgc_balance[dp[d].client.id] >= dp[d].clientRewardToRevoke.pgc_amount)
          => pgc_balance'[dp[d].client.id]
               = pgc_balance[dp[d].client.id] - dp[d].clientRewardToRevoke.pgc_amount
    ]_vars

\* C5: revoking a ledger entry whose revocation has already completed leaves
\* every stored balance unchanged.
C5_SecondRevokeIsNoOp ==
  [][\A d \in DetailSessions :
       (RevokeAnswered(d) /\ dp[d].wasRevoked) => pgc_balance' = pgc_balance]_vars

\* C6: the balance a revocation writes is never negative, and it is 0 when
\* the reward's point value exceeds the balance the revocation starts from.
C6_RevokeNeverNegative ==
  [][\A d \in DetailSessions :
       (RevokeAnswered(d) /\ lastCall' # "err")
       => /\ pgc_balance'[dp[d].client.id] >= 0
          /\ (dp[d].clientRewardToRevoke.pgc_amount > dp[d].client.pgc_balance
                => pgc_balance'[dp[d].client.id] = 0)]_vars

\* a revocation of a reward worth more than the balance has written 0
C6_Witness ==
  /\ lastCall = "ok, clamped"
  /\ dp["d1"].pc = "ready"
  /\ dp["d1"].client.pgc_balance = 0
  /\ pgc_balance[dp["d1"].client.id] = 0

\* C7: when the balance write of an assignment fails after its ledger insert
\* succeeded, nothing is rolled back (ledger and balances stay as they are)
\* and the tab ends with an error that differs from the error of a failed
\* insert, and without a success message.
C7_AssignPartialFailure ==
  [][\A s \in AssignSessions :
       (AssignAnswered(s) /\ lastCall' = "err")
       => /\ client_rewards' = client_rewards
          /\ pgc_balance' = pgc_balance
          /\ ap'[s].error \notin {"null", AssignInsertError}
          /\ ap'[s].successMessage = NoMessage]_vars

\* an assignment has ended with its entry in the ledger and the balance
\* write failed
C7_Witness ==
  \E s \in AssignSessions :
    /\ ap[s].pc = "ready"
    /\ lastCall = "err"
    /\ ap[s].error = AssignBalanceError
    /\ ap[s].successMessage = NoMessage
    /\ client_rewards # {}
    /\ pgc_balance["c1"] = 0

\* C8: when the balance write of a revocation fails after its ledger delete
\* succeeded, the entry stays deleted, the balances are unchanged, and the
\* tab ends with an error that differs from the error of a failed delete,
\* with its client, its list of rewards and the open dialog as they were.
C8_RevokePartialFailure ==
  [][\A d \in DetailSessions :
       (RevokeAnswered(d) /\ lastCall' = "err")
       => /\ client_rewards' = client_rewards
          /\ dp[d].clientRewardToRevoke.id \notin {x.id : x \in client_rewards'}
          /\ pgc_balance' = pgc_balance
          /\ dp'[d].revokeError \notin {"null", RevokeDeleteError}
          /\ dp'[d].client = dp[d].client
          /\ dp'[d].obtainedRewards = dp[d].obtainedRewards
          /\ dp'[d].clientRewardToRevoke = dp[d].clientRewardToRevoke
          /\ dp'[d].showRevokeModal]_vars

\* a revocation has ended with its entry deleted and the balance write failed
C8_Witness ==
  \E d \in DetailSessions :
    /\ dp[d].pc = "ready"
    /\ lastCall = "err"
    /\ dp[d].revokeError = RevokeBalanceError
    /\ dp[d].showRevokeModal
    /\ dp[d].clientRewardToRevoke \in dp[d].obtainedRewards
    /\ dp[d].clientRewardToRevoke.id \notin EntryIds
    /\ pgc_balance[dp[d].client.id] = dp[d].client.pgc_balance

\* C9: whatever the interleaving of two fetchAndSetProfile calls for an
\* identity without a clients row, the store never holds more than one row
\* for an id, and it holds exactly one as soon as an insert of either call
\* has been answered with the row or with a duplicate-key error, and
\* whenever the provider holds a profile.
C9_OneRowPerIdentity ==
  /\ \A u \in ClientIds : clientRows[u] <= 1
  /\ \A k \in ProfileCalls :
        (calls[k].pc = "insert" /\ calls[k].res \in {"row", "23505"})
        => clientRows[calls[k].user] = 1
  /\ profile # "none" => clientRows[profile] = 1

\* both calls found no row and both inserted: one insert created the row,
\* the other was rejected as a duplicate
C9_Witness ==
  /\ calls["p1"].pc = "insert" /\ calls["p1"].res = "row"
  /\ calls["p2"].pc = "insert" /\ calls["p2"].res = "23505"
  /\ calls["p1"].user = "u1" /\ calls["p2"].user = "u1"
  /\ clientRows["u1"] = 1

\* C10: a call whose insert is rejected as a duplicate, because a concurrent
\* call created the row, ends with that existing row as the profile.
C10_DuplicateMeansExists ==
  [][\A k \in ProfileCalls :
       (calls[k].pc = "insert" /\ calls[k].res = "23505" /\ calls'[k].pc = "idle")
       => profile' = calls[k].user]_vars

\* C11: when an upload of submitMitigation fails after earlier uploads of the
\* same call succeeded, the operation ends with no entry created and with
\* none of the files this call uploaded left in storage.
C11_NoOrphanedUploads ==
  [][(sp.pc = "upload" /\ sp'.pc = "idle" /\ Len(sp.uploadedImageUrls) > 0)
       => /\ plastic_mitigation_entries' = plastic_mitigation_entries
          /\ \A i \in 1..Len(sp.uploadedImageUrls) :
               sp.uploadedImageUrls[i].path \notin storage']_vars

\* C12: a submission by a signed-in client whose kg input is empty or not
\* above zero ends at once in the validation error; nothing is uploaded and
\* no entry or image row is inserted.
C12_InvalidKgRejected ==
  [][(/\ sp.pc = "idle" /\ sp' # sp
      /\ user # "none" /\ profile # "none"
      /\ sp'.mitigatedPlasticKg \in {"", "-1", "0"})
       => /\ sp'.pc = "idle"
          /\ sp'.mitigationError = ValidationError
          /\ UNCHANGED <<storage, plastic_mitigation_entries,
                         mitigation_activity_images>>]_vars

\* C12 witness: a signed-in client submitted kg 0 with an image attached and
\* was shown the validation error.
C12_Witness ==
  /\ user # "none" /\ profile # "none"
  /\ sp.pc = "idle"
  /\ sp.mitigatedPlasticKg = "0"
  /\ Len(sp.imageFiles) > 0
  /\ sp.mitigationError = ValidationError

\* C13: when the insert of the image rows fails, the entry created by the
\* same submission is still in the store, and the submission ends with an
\* error message and without the success message.
C13_ImageRowFailureKeepsEntry ==
  [][(/\ sp.pc = "insertImages" /\ sp'.pc = "idle"
      /\ mitigation_activity_images' = mitigation_activity_images)
       => /\ \E x \in plastic_mitigation_entries' : x.id = sp.mitigationEntry
          /\ sp'.mitigationError # ""
          /\ sp'.mitigationMessage = ""]_vars

\* C13 witness: a submission ended with the image-row error and its entry
\* is in the table without image rows.
C13_Witness ==
  /\ sp.pc = "idle"
  /\ sp.mitigationError = ImageRecordError
  /\ \E x \in plastic_mitigation_entries : x.id = sp.mitigationEntry
  /\ ~\E i \in mitigation_activity_images : i.entry_id = sp.mitigationEntry

\* C14: a submission of kg with N images that ends successfully has created
\* exactly one entry, owned by the client, with amount kg and status pending,
\* and exactly N image rows, which reference that entry and the URLs of N
\* distinct stored files under the client's folder.
C14_SuccessfulSubmission ==
  [][/\ (plastic_mitigation_entries' # plastic_mitigation_entries
          => /\ sp.pc = "insertEntry"
             /\ plastic_mitigation_entries \subseteq plastic_mitigation_entries'
             /\ Cardinality(plastic_mitigation_entries' \ plastic_mitigation_entries) = 1)
     /\ (/\ sp.pc \in {"insertEntry", "insertImages"}
         /\ sp'.pc = "idle"
         /\ sp'.mitigationMessage = SuccessMessage)
          => LET e    == sp'.mitigationEntry
                 N    == Len(sp.imageFiles)
                 rows == {x \in plastic_mitigation_entries' : x.id = e}
                 imgs == {i \in mitigation_activity_images' : i.entry_id = e}
             IN /\ Cardinality(rows) = 1
                /\ \A x \in rows :
                     /\ x.client_id = sp.userId
                     /\ sp.mitigatedPlasticKg = "1" => x.mitigated_plastic_kg = 1
                     /\ sp.mitigatedPlasticKg = "2" => x.mitigated_plastic_kg = 2
                     /\ x.status = "pending"
                /\ Cardinality(imgs) = N
                /\ Cardinality({i.image_url : i \in imgs}) = N
                /\ \A i \in imgs :
                     /\ i.image_url.path \in storage'
                     /\ i.image_url.path.folder = sp.userId]_vars

\* C14 witness: a submission with two images ended successfully.
C14_Witness ==
  /\ sp.pc = "idle"
  /\ sp.mitigationMessage = SuccessMessage
  /\ Cardinality({i \in mitigation_activity_images :
                    i.entry_id = sp.mitigationEntry}) = 2

\* an accepted handleUpdateEntry of tab m
UpdateAccepted(m) == mp[m].pc = "ready" /\ mp'[m].pc = "refetch"

\* C16: an admin update that leaves the kg input at the amount the page
\* loaded and picks a status sets the stored status to the one picked and
\* leaves the stored amount as it was, also when the stored amount was
\* changed by another session after the page loaded the entry.
C16_StatusUpdateKeepsKg ==
  [][\A m \in ManageSessions :
       (UpdateAccepted(m) /\ mp'[m].editableKg = mp[m].entry.mitigated_plastic_kg)
         => \A x \in plastic_mitigation_entries, y \in plastic_mitigation_entries' :
              (x.id = mp[m].entry.id /\ y.id = x.id)
                => /\ y.status = mp'[m].editableStatus
                   /\ y.mitigated_plastic_kg = x.mitigated_plastic_kg]_vars

\* C17: the status of an entry is always pending, approved or rejected; it
\* is pending when the entry is created; it changes only by an accepted admin
\* update, which sets it to the status picked whatever it was before; and
\* the store refuses an update only for its kg amount.
C17_StatusLifeCycle ==
  [][/\ \A y \in plastic_mitigation_entries' : y.status \in Statuses
     /\ \A y \in plastic_mitigation_entries' :
          (~\E x \in plastic_mitigation_entries : x.id = y.id)
            => y.status = "pending"
     /\ \A x \in plastic_mitigation_entries, y \in plastic_mitigation_entries' :
          (x.id = y.id /\ x.status # y.status)
            => \E m \in ManageSessions :
                 /\ UpdateAccepted(m)
                 /\ mp[m].entry.id = x.id
     /\ \A m \in ManageSessions :
          UpdateAccepted(m)
            => \A y \in plastic_mitigation_entries' :
                 y.id = mp[m].entry.id => y.status = mp'[m].editableStatus
     /\ \A m \in ManageSessions :
          (/\ mp[m].pc = "ready" /\ mp'[m].pc = "ready" /\ mp'[m] # mp[m]
           /\ mp'[m].error = UpdateCheckError)
            => mp'[m].editableKg <= 0]_vars

\* C17 witness: an update that re-opens an approved entry was accepted.
C17_Witness ==
  \E m \in ManageSessions :
    /\ mp[m].pc = "refetch"
    /\ mp[m].entry.status = "approved"
    /\ mp[m].editableStatus = "pending"
    /\ \E x \in plastic_mitigation_entries :
         x.id = mp[m].entry.id /\ x.status = "pending"

\* C15: the delete of a reward definition that a ledger entry references
\* ends in an error and leaves the definition and every ledger entry in
\* place; the delete of a definition no ledger entry references is not
\* refused by the store and, once answered without error, has removed it.
C15_DeleteRewardRestricted ==
  [][(rp.rewardToDelete # "none" /\ rp' # rp)
       => LET r == rp.rewardToDelete
          IN IF \E e \in client_rewards : e.reward_id = r
             THEN /\ rp'.error # "null"
                  /\ rp'.showDeleteModal
                  /\ r \in rewardRows => r \in rewardRows'
                  /\ client_rewards' = client_rewards
             ELSE /\ rp'.error # DeleteConflictError
                  /\ ~rp'.showDeleteModal => r \notin rewardRows'
                  /\ rp'.showDeleteModal => rp'.error = DeleteNetworkError
                  /\ client_rewards' = client_rewards]_vars

\* C15 witness: the delete of a referenced definition was refused, and the
\* definition and the ledger entry are still there.
C15_Witness ==
  /\ rp.error = DeleteConflictError
  /\ rp.rewardToDelete \in rewardRows
  /\ \E e \in client_rewards : e.reward_id = rp.rewardToDelete
  /\ rewardRows # RewardIds

\* C18: updateProfile by a signed-in client whose id has no clients row ends
\* in an error and creates no clients row.
C18_UpdateProfileNeedsRow ==
  [][(/\ pp.pc = "idle" /\ pp' # pp
      /\ user # "none" /\ profile # "none"
      /\ clientRows[user] = 0)
       => /\ clientRows'[user] = 0
          /\ pp'.error # ""]_vars

\* C19: an updateProfile the store accepted leaves the id, the email and
\* the point balance of the caller's existing row as they were, changes no
\* other clients row, and changes no other table.
C19_UpdateProfileFrame ==
  [][(pp.pc = "idle" /\ pp'.pc = "refresh")
       => /\ clientRows[user] = 1
            => /\ clientRows'[user] = 1
               /\ email'[user] = email[user]
               /\ pgc_balance'[user] = pgc_balance[user]
          /\ \A c \in ClientIds \ {user} :
               /\ clientRows'[c] = clientRows[c]
               /\ email'[c] = email[c]
               /\ full_name'[c] = full_name[c]
               /\ solana_wallet'[c] = solana_wallet[c]
               /\ bnb_wallet'[c] = bnb_wallet[c]
               /\ pgc_balance'[c] = pgc_balance[c]
          /\ UNCHANGED <<client_rewards, rewardRows, pgc_amount,
                         plastic_mitigation_entries,
                         mitigation_activity_images, storage>>]_vars

\* C19 witness: the client, holding a positive balance, had the name and a
\* wallet of the own row written by an accepted updateProfile.
C19_Witness ==
  /\ pp.pc = "refresh"
  /\ user = "u1"
  /\ clientRows["u1"] = 1
  /\ pgc_balance["u1"] > 0
  /\ full_name["u1"] = "n"
  /\ solana_wallet["u1"] = "w"
  /\ email["u1"] = "u1@petgas"
  /\ clientRows["c1"] = 1

\* the step in which tab m's handleDeleteImage ends
ImageDeleteEnds(m) == mp[m].pc = "deleteImage" /\ mp'[m].pc # "deleteImage"

C23_DeleteClientCascades ==
  [][(cl.pc = "ready" /\ cl.clientToDelete # "none" /\ cl' # cl)
       => LET c     == cl.clientToDelete
              owned == {x.id : x \in {y \in plastic_mitigation_entries : y.client_id = c}}
          IN IF ~cl'.showDeleteModal
             THEN /\ clientRows'[c] = 0
                  /\ \A x \in plastic_mitigation_entries' : x.client_id # c
                  /\ \A i \in mitigation_activity_images' : i.entry_id \notin owned
                  /\ \A x \in petgas_consumption_entries' : x.client_id # c
                  /\ \A x \in client_rewards' : x.client_id # c
             ELSE /\ cl'.error # "null"
                  /\ UNCHANGED <<clientRows, pgc_balance, colVars,
                                 plastic_mitigation_entries,
                                 mitigation_activity_images,
                                 petgas_consumption_entries, client_rewards>>]_vars

\* C23 witness: client u1 had an entry with an image row, a consumption
\* entry and a ledger entry, and has been deleted.
C23_Witness ==
  /\ clientRows["u1"] = 0
  /\ cl.pc = "ready" /\ ~cl.showDeleteModal /\ "u1" \notin cl.clients
  /\ sp.userId = "u1" /\ sp.pc = "idle" /\ sp.mitigationMessage = SuccessMessage
  /\ sp.mitigationEntry = 1 /\ Len(sp.uploadedImageUrls) = 1
  /\ cf.consumptionMessage = ConsumptionLogged
  /\ nextId > 1
  /\ plastic_mitigation_entries = {}
  /\ mitigation_activity_images = {}
  /\ petgas_consumption_entries = {}
  /\ client_rewards = {}

\* C25: every stored mitigation entry and every stored consumption entry has
\* an amount above 0 in every reachable state, also after admin edits: an
\* edit of an existing entry to 0 (what the inputs make of a non-number) is
\* rejected with an error and leaves the stored rows as they were.
C25_AmountsPositive ==
  /\ [](/\ \A x \in plastic_mitigation_entries : x.mitigated_plastic_kg > 0
        /\ \A x \in petgas_consumption_entries : x.liters_consumed > 0)
  /\ [][/\ \A m \in ManageSessions :
             (/\ mp[m].pc = "ready" /\ mp'[m] # mp[m]
              /\ mp'[m].pc \in {"ready", "refetch"}
              /\ mp'[m].entry = mp[m].entry
              /\ \E x \in plastic_mitigation_entries : x.id = mp[m].entry.id
              /\ mp'[m].editableKg <= 0)
               => /\ mp'[m].pc = "ready"
                  /\ mp'[m].error # "null"
                  /\ plastic_mitigation_entries' = plastic_mitigation_entries
        /\ (/\ cm.pc = "ready" /\ cm' # cm
            /\ cm'.pc \in {"ready", "refetch"}
            /\ cm'.entry = cm.entry
            /\ \E x \in petgas_consumption_entries : x.id = cm.entry.id
            /\ cm'.editableLiters <= 0)
             => /\ cm'.pc = "ready"
                /\ cm'.error # "null"
                /\ petgas_consumption_entries' = petgas_consumption_entries]_vars

\* C25 witness: the admin's edits of a mitigation entry and of a consumption
\* entry to 0 were both refused, and the rows hold their positive amounts.
C25_Witness ==
  /\ mp["m1"].pc = "ready" /\ mp["m1"].error = UpdateCheckError
  /\ mp["m1"].editableKg = 0
  /\ \E x \in plastic_mitigation_entries :
       x.id = mp["m1"].entry.id /\ x.mitigated_plastic_kg = 2
  /\ cm.pc = "ready" /\ cm.error = UpdateCheckError
  /\ cm.editableLiters = 0
  /\ \E x \in petgas_consumption_entries :
       x.id = cm.entry.id /\ x.liters_consumed = 2

\* C26: when every upload of a submission succeeded and the insert of the
\* entry fails, the submission ends in an error with no entry and no image
\* row created and with none of the files it uploaded left in storage.
C26_EntryFailureCleansUp ==
  [][(/\ sp.pc = "insertEntry" /\ sp'.pc = "idle"
      /\ Len(sp.uploadedImageUrls) > 0
      /\ sp'.mitigationMessage # SuccessMessage)
       => /\ sp'.mitigationError # ""
          /\ plastic_mitigation_entries' = plastic_mitigation_entries
          /\ mitigation_activity_images' = mitigation_activity_images
          /\ \A i \in 1..Len(sp.uploadedImageUrls) :
               sp.uploadedImageUrls[i].path \notin storage']_vars

\* C27: when the first write of a reward operation fails (the ledger insert
\* of an assignment, the ledger delete of a revocation), the operation ends
\* there with its error: the balance write is not attempted, and the ledger
\* and the balances are as they were.
C27_FirstWriteFailureStops ==
  [][/\ \A s \in AssignSessions :
          (/\ ap[s].pc = "ready" /\ ap'[s] # ap[s]
           /\ ap'[s].pc # "fetchRewards" /\ lastCall' = "err")
            => /\ ap'[s].pc = "ready"
               /\ ap'[s].error = AssignInsertError
               /\ ap'[s].successMessage = NoMessage
               /\ UNCHANGED <<client_rewards, pgc_balance>>
     /\ \A d \in DetailSessions :
          (/\ dp[d].pc = "ready" /\ dp[d].showRevokeModal
           /\ dp'[d] # dp[d]
           /\ dp'[d].pc # "fetchRewards" /\ lastCall' = "err")
            => /\ dp'[d].pc = "ready"
               /\ dp'[d].revokeError = RevokeDeleteError
               /\ UNCHANGED <<client_rewards, pgc_balance>>]_vars

\* C27 witness: after an assignment and the request to revoke it, a further
\* assignment ended in the insert error and the revocation in the delete
\* error; the ledger holds the one entry and the balance its value.
C27_Witness ==
  /\ \E s \in AssignSessions :
       ap[s].pc = "ready" /\ ap[s].error = AssignInsertError
  /\ dp["d1"].pc = "ready" /\ dp["d1"].revokeError = RevokeDeleteError
  /\ dp["d1"].clientRewardToRevoke.id \in EntryIds
  /\ Cardinality(client_rewards) = 1
  /\ pgc_balance["c1"] = LedgerSum("c1")
  /\ pgc_balance["c1"] > 0

\* C28: in every state of the client AuthProvider a profile that is not null
\* goes with a user that is not null and whose id is the profile's id (so
\* after a sign-out has completed the profile stays null until the next
\* sign-in, also when a profile fetch started before it resolves after it).
C28_ProfileImpliesUser ==
  profile # "none" => (user # "none" /\ user = profile)

\* C29: in the client AuthProvider loading is false only when no
\* fetchAndSetProfile call is in flight, and it is false once every call in
\* flight has resolved.
C29_LoadingTracksFetches ==
  /\ ~loading => \A k \in ProfileCalls : calls[k].pc = "idle"
  /\ (/\ \A k \in ProfileCalls : calls[k].pc = "idle"
      /\ ~sessionPending /\ ~signOutPending) => ~loading

\* C24: the admin layout shows the page of a path other than /admin/login
\* only when the admin provider has finished loading and holds an admin
\* user, and for such a path without an admin user it returns null and
\* replaces the route by /admin/login; the client layout shows the page only
\* when the client provider has finished loading and holds a user, and
\* without a user it returns null and replaces the route by /login.
C24_RouteProtection ==
  /\ (AdminLayoutRender = "children" /\ adminPath # "/admin/login")
       => (~adminLoading /\ adminUser # "none")
  /\ (~adminLoading /\ adminUser = "none" /\ adminPath # "/admin/login")
       => (AdminLayoutRender = "null" /\ AdminLayoutReplace = "/admin/login")
  /\ clientPath # "/login"
       => /\ ClientLayoutRender = "children" => (~loading /\ user # "none")
          /\ (~loading /\ user = "none")
               => (ClientLayoutRender = "null" /\ ClientLayoutReplace = "/login")

\* C24 witness: a visitor without admin user stands on /admin/clients after
\* loading has finished, and a client without user on /client/profile.
C24_Witness ==
  /\ ~adminLoading /\ adminUser = "none" /\ adminPath = "/admin/clients"
  /\ ~loading /\ user = "none" /\ clientPath = "/client/profile"
  /\ authUser = "none" /\ adminAuthUser = "none"

\* C30: on the admin list of mitigation entries the page index is at least 0
\* and at most max(0, totalPages - 1), with totalPages computed from the
\* count of the most recently answered fetch at 15 entries per page.
C30_PageWithinRange ==
  lp.pc = "mounted"
    => (0 <= lp.page /\ lp.page <= Max(0, TotalPages(lp) - 1))

\* C20: the stored point balance of a client changes only in the balance
\* write of an assignReward or a revokeReward.
C20_BalanceOnlyByRewards ==
  [][\A c \in ClientIds :
       (clientRows[c] = 1 /\ clientRows'[c] = 1 /\ pgc_balance'[c] # pgc_balance[c])
         => \/ \E s \in AssignSessions : AssignAnswered(s)
            \/ \E d \in DetailSessions : RevokeAnswered(d)]_vars

====
